---------------------------- MODULE Spec2Model ----------------------------
(***************************************************************************)
(* Cart-to-order checkout of the tele-store bot.                           *)
(*                                                                         *)
(* The persistent state is the SQLite database behind the CRUD managers    *)
(* (products, carts, cart_items, orders, order_items); every CRUD helper   *)
(* commits on its own, so each helper call is one durable step.  The       *)
(* transient state is the aiogram FSM storage (state and data per user).   *)
(* confirm_order is modelled one database call per step, because each call *)
(* is a suspension point at which other handlers run; the other handlers   *)
(* are modelled as one step each.                                          *)
(*                                                                         *)
(* Money is counted in whole units; texts are sequences of one-character   *)
(* strings.                                                                *)
(***************************************************************************)
EXTENDS Integers, Sequences, FiniteSets

(* ------------------------------ bounds -------------------------------- *)
MaxQty == 2          \* largest cart quantity that add / increase will produce
MaxOrders == 2       \* largest number of Order rows
MaxCartItemId == 3   \* largest id handed to a cart_items row
MaxPrice == 2        \* prices range over 1..MaxPrice
MaxEvents == 1       \* cart and catalogue events that arrive while an order is confirmed

Users == {1}                 \* Telegram ids of the customers
ProductIds == {1, 2}         \* ids of the catalogue rows
Handlers == {"h1", "h2"}     \* concurrently running confirm_order tasks
OrderNumbers == {"A1", "B2"} \* outcomes of generate_order_number
Prices == 1..MaxPrice

(* ------------------------------ values -------------------------------- *)
\* Python None for a text value; no text over one-character strings equals it.
None == <<"None">>

Whitespace == {" ", "\t", "\n"}
Digits == {"0", "1", "2", "3", "4", "5", "6", "7", "8", "9"}

\* labels stored by choose_delivery_method (the Russian labels of the source)
Courier == <<"Courier">>
SelfPickup == <<"SelfPickup">>

\* states.py: the states of the NewDelivery group, as aiogram names them
NewDelivery ==
  [name |-> "NewDelivery:name", phone_number |-> "NewDelivery:phone_number",
   address |-> "NewDelivery:address", delivery_method |-> "NewDelivery:delivery_method",
   confirm |-> "NewDelivery:confirm"]

\* the states user_message.py filters on and sets.  states.py declares no
\* RegNewUser group; whatever declares it, a state of another group is a
\* different state than the NewDelivery state of the same name
RegNewUser ==
  [name |-> "RegNewUser:name", phone_number |-> "RegNewUser:phone_number",
   address |-> "RegNewUser:address", delivery_method |-> "RegNewUser:delivery_method",
   confirm |-> "RegNewUser:confirm"]

StageNames == {"name", "phone_number", "address", "delivery_method", "confirm"}

\* every state a checkout handler filters on or sets; "none" is the cleared state
CheckoutStates ==
  {NewDelivery[n] : n \in StageNames} \cup {RegNewUser[n] : n \in StageNames}

\* FSM data after state.clear(): an empty dict
EmptyData ==
  [cart_id |-> 0, name |-> None, phone_number |-> None,
   address |-> None, delivery_method |-> None]

\* item.product when the product row is missing
NoProduct == [exists |-> FALSE, id |-> 0, price |-> 0, is_active |-> FALSE]

\* cart loaded by CartManager.get_cart when no row matches
NoCart == [id |-> 0, tg_id |-> 0, items |-> <<>>]

(* ------------------------------ texts --------------------------------- *)
RECURSIVE LStrip(_)
LStrip(s) ==
  IF s = <<>> THEN s
  ELSE IF Head(s) \in Whitespace THEN LStrip(Tail(s)) ELSE s

RECURSIVE RStrip(_)
RStrip(s) ==
  IF s = <<>> THEN s
  ELSE IF s[Len(s)] \in Whitespace THEN RStrip(SubSeq(s, 1, Len(s) - 1)) ELSE s

\* str.strip()
Strip(s) == RStrip(LStrip(s))

IsDigit(c) == c \in Digits

\* a substitution that removes nothing
DigitsOnly_mut(s) == s

\* re.sub(r"\D", "", raw_phone)
DigitsOnly(s) == SelectSeq(s, IsDigit)

Ann == <<"A", "n", "n">>
AnnPadded == <<" ", "A", "n", "n", " ">>
Blank == <<" ", " ">>
Phone11 == <<"+", "7", " ", "(", "9", "9", "9", ")", " ", "1", "2", "3", "-", "4", "5", "-", "6", "7">>
Phone5 == <<"1", "2", "3", "4", "5">>
MainSt == <<"M", "a", "i", "n", " ", "1">>

NameInputs == {Ann, AnnPadded, Blank, <<>>}
\* numbers of 9, 10, 15 and 16 digits; the second is sent with a leading
\* plus sign and a trailing blank
Phone9 == [i \in 1..9 |-> "7"]
Phone10 == <<"+">> \o [i \in 1..10 |-> "7"] \o <<" ">>
Phone15 == [i \in 1..15 |-> "7"]
Phone16 == [i \in 1..16 |-> "7"]

PhoneInputs == {Phone11, Phone5, Phone9, Phone10, Phone15, Phone16}
AddressInputs == {MainSt, Blank}
DeliveryInputs == {Ann, Blank}

VARIABLES
  users,           \* table users: set of [id, tg_id]
  categories,      \* table categories: set of the ids of the rows
  products,        \* table products: id -> [exists, category_id, price, is_active]
  carts,           \* table carts: set of [id, tg_id]
  cart_items,      \* table cart_items: set of [id, cart_id, product_id, quantity]
  orders,          \* table orders
  order_items,     \* table order_items: set of [order_id, product_id, quantity, price]
  fsm_state,       \* FSM storage: state per user
  fsm_data,        \* FSM storage: data dict per user
  conf,            \* running confirm_order tasks: locals and position
  events,          \* number of cart and catalogue events handled since the confirmation prompt
  add_task,        \* running add_product_to_cart tasks: locals and position
  ret              \* what the last direct call of a CartManager method returned,
                   \* or how the last button press of the administrator ended

vars == <<users, categories, products, carts, cart_items, orders, order_items,
          fsm_state, fsm_data, conf, events, add_task, ret>>

db == <<users, categories, products, carts, cart_items, orders, order_items>>

(* --------------------------- reading the db --------------------------- *)
\* the Product row with the given id as the ORM loads it, None when missing
LoadProduct(p) ==
  IF p \in DOMAIN products /\ products[p].exists
  THEN [exists |-> TRUE, id |-> p, price |-> products[p].price,
        is_active |-> products[p].is_active]
  ELSE NoProduct

\* a cart_items row with its product relationship loaded (selectinload)
LoadItem(ci) ==
  [id |-> ci.id, cart_id |-> ci.cart_id, product_id |-> ci.product_id,
   quantity |-> ci.quantity, product |-> LoadProduct(ci.product_id)]

RECURSIVE ItemsById(_)
ItemsById(S) ==
  IF S = {} THEN <<>>
  ELSE LET m == CHOOSE x \in S : \A y \in S : x.id <= y.id
       IN <<LoadItem(m)>> \o ItemsById(S \ {m})

ItemsOfCart(cid) == {ci \in cart_items : ci.cart_id = cid}

LoadCart(c) == [id |-> c.id, tg_id |-> c.tg_id, items |-> ItemsById(ItemsOfCart(c.id))]

\* CartManager.get_cart
get_cart(cart_id) ==
  IF \E c \in carts : c.id = cart_id
  THEN LoadCart(CHOOSE c \in carts : c.id = cart_id)
  ELSE NoCart

\* CartManager.get_cart_by_user
get_cart_by_user(tg_id) ==
  IF \E c \in carts : c.tg_id = tg_id
  THEN LoadCart(CHOOSE c \in carts : c.tg_id = tg_id)
  ELSE NoCart

\* a test that looks at the missing product only
Unavailable_mut(item) == ~item.product.exists

\* the test of sanitize_cart: product is None or not product.is_active
Unavailable(item) == ~item.product.exists \/ ~item.product.is_active

\* a pass that deletes every row of the cart
SanitizeIds_mut(cart) == {cart.items[i].id : i \in 1..Len(cart.items)}

\* ids of the rows that one pass of sanitize_cart over a loaded cart deletes
SanitizeIds(cart) ==
  {cart.items[i].id : i \in {j \in 1..Len(cart.items) : Unavailable(cart.items[j])}}

\* cart_items after CartManager.delete_cart_item for every id in ids
DeleteItems(rows, ids) == {ci \in rows : ci.id \notin ids}

\* cart_items after refresh_cart_view(call, session) for the user
RefreshCartView(rows, tg_id) ==
  LET c == IF \E x \in carts : x.tg_id = tg_id
           THEN CHOOSE x \in carts : x.tg_id = tg_id ELSE [id |-> 0, tg_id |-> 0]
      mine == {ci \in rows : ci.cart_id = c.id}
      bad == {ci.id : ci \in {x \in mine : Unavailable(LoadItem(x))}}
  IN IF c.id = 0 THEN rows ELSE DeleteItems(rows, bad)

RECURSIVE SumLines(_, _)
\* collect_cart_lines: total over the items whose product is not None
SumLines(items, i) ==
  IF i > Len(items) THEN 0
  ELSE (IF items[i].product.exists
        THEN items[i].product.price * items[i].quantity ELSE 0)
       + SumLines(items, i + 1)

\* collect_cart_lines: indices of the items that produce a line
LineIdx(items) == {i \in 1..Len(items) : items[i].product.exists}

collect_total(cart) == SumLines(cart.items, 1)


\* sanitize_cart's return value.  When rows were removed the function
\* re-selects the cart in the same session; the session already holds that
\* Cart with its items collection loaded (expire_on_commit=False, no
\* populate_existing), so the select hands back the same object with the
\* collection as it was loaded, deleted rows included.
sanitize_cart_result(cart) == cart

\* CreateOrder(...) validates: name, phone and address are required str
ValidOrderPayload(data) ==
  data.name # None /\ data.phone_number # None /\ data.address # None

(* ------------------------------ Init ---------------------------------- *)
IdleTask ==
  [pc |-> "idle", tg_id |-> 0, data |-> EmptyData, cart |-> NoCart,
   total_price |-> 0, order_id |-> 0, idx |-> 0, removed |-> {},
   cleared |-> FALSE]

\* concurrently running add_product_to_cart tasks
AddTasks == {"a1", "a2"}

\* an add_product_to_cart task that has not started
IdleAdd == [pc |-> "idle", tg_id |-> 0, product_id |-> 0, cart_id |-> 0,
            existing_id |-> 0, existing_quantity |-> 0, error |-> "none"]

\* no CartManager method has been called directly
NoReturn == [op |-> "none", value |-> "none", cart |-> NoCart]

\* the handlers run with no add_product_to_cart task in flight and no
\* direct CartManager call made
NoCalls == add_task = [t \in AddTasks |-> IdleAdd] /\ ret = NoReturn

\* the FSM data of a session that stands at stage n of the dialogue for
\* cart 1: the fields of the stages before n are collected
StageData(n) ==
  [cart_id |-> 1,
   name |-> IF n = "name" THEN None ELSE Ann,
   phone_number |-> IF n \in {"name", "phone_number"} THEN None ELSE Phone11,
   address |-> IF n \in {"confirm", "delivery_method"} THEN MainSt ELSE None,
   delivery_method |-> IF n = "confirm" THEN Courier ELSE None]

\* the catalogue as the administrator filled it: every product exists and
\* is active
InitProducts ==
  [p \in ProductIds |->
     [exists |-> TRUE, category_id |-> p, price |-> 1, is_active |-> TRUE]]

\* the entry of a product whose row was deleted
NoProductRow == [exists |-> FALSE, category_id |-> 0, price |-> 0, is_active |-> FALSE]

\* the rows the /start command stored: one User per Telegram account that
\* opened the bot
InitUsers == {[id |-> 1, tg_id |-> 1], [id |-> 2, tg_id |-> 2]}

\* the categories the administrator created, one per product
CategoryIds == {1, 2}

\* the users and the categories are stored
Registered == users = InitUsers /\ categories = CategoryIds

\* cart 1 of user 1 with both products in it
InitCartItems ==
  {[id |-> 1, cart_id |-> 1, product_id |-> 1, quantity |-> 1],
   [id |-> 2, cart_id |-> 1, product_id |-> 2, quantity |-> 2]}

\* A run starts with a filled catalogue and either an empty shop with
\* nobody in checkout, or the user's session standing at a stage of the
\* dialogue: the FSM storage holds a state that a handler filters on, the
\* data of the stages before it, and the user's cart holds both products.
\* (NewDelivery.name is not drawn: start_checkout enters it.)
Init ==
  /\ products = InitProducts
  /\ orders = {}
  /\ order_items = {}
  /\ conf = [h \in Handlers |-> IdleTask]
  /\ events = 0
  /\ NoCalls
  /\ Registered
  /\ \/ /\ carts = {}
        /\ cart_items = {}
        /\ fsm_state = [u \in Users |-> "none"]
        /\ fsm_data = [u \in Users |-> EmptyData]
     \/ /\ carts = {[id |-> 1, tg_id |-> 1]}
        /\ cart_items = InitCartItems
        /\ \E n \in StageNames :
             /\ fsm_state \in {[u \in Users |-> NewDelivery[n]],
                               [u \in Users |-> RegNewUser[n]]}
             /\ \A u \in Users : fsm_state[u] # NewDelivery.name
             /\ fsm_data = [u \in Users |-> StageData(n)]

(* --------------------------- FSM storage ------------------------------ *)
\* a clear that leaves the state where it is
ClearedState_mut(st, u) == st

\* state.clear() for one user, given the storage
ClearedState(st, u) == [st EXCEPT ![u] = "none"]
ClearedData(dt, u) == [dt EXCEPT ![u] = EmptyData]

(* ------------------------- cart handlers ------------------------------ *)
\* the id SQLite gives the next cart_items row: the column is an INTEGER
\* PRIMARY KEY without the AUTOINCREMENT keyword, so it is one more than the
\* largest id in the table, and the id of a deleted last row is handed out again
NextCartItemId ==
  IF cart_items = {} THEN 1
  ELSE (CHOOSE m \in {ci.id : ci \in cart_items} : \A ci \in cart_items : ci.id <= m) + 1

\* a lookup that finds no row
get_cart_item_by_product_mut(cart_id, product_id) == {}

\* CartManager.get_cart_item_by_product: the rows of the cart with the product
get_cart_item_by_product(cart_id, product_id) ==
  {ci \in cart_items : ci.cart_id = cart_id /\ ci.product_id = product_id}

\* a test that lets every product through
CanBeAdded_mut(product) == TRUE

\* add_product_to_cart, line 71: the product is there and active
CanBeAdded(product) == product.exists /\ product.is_active

\* cart.py add_product_to_cart
add_product_to_cart(u, p) ==
  LET product == LoadProduct(p) IN
  /\ CanBeAdded(product)
  /\ LET had == \E c \in carts : c.tg_id = u
         newcarts == IF had THEN carts
                     ELSE carts \cup {[id |-> Cardinality(carts) + 1, tg_id |-> u]}
         cart == CHOOSE c \in newcarts : c.tg_id = u
         existing == get_cart_item_by_product(cart.id, p)
     IN /\ carts' = newcarts
        /\ IF existing = {}
           THEN /\ NextCartItemId <= MaxCartItemId
                /\ cart_items' = cart_items \cup
                     {[id |-> NextCartItemId, cart_id |-> cart.id,
                       product_id |-> p, quantity |-> 1]}
           ELSE LET e == CHOOSE ci \in existing : TRUE IN
                /\ e.quantity < MaxQty
                /\ cart_items' = (cart_items \ {e}) \cup
                     {[e EXCEPT !.quantity = e.quantity + 1]}
  /\ UNCHANGED <<products, orders, order_items, fsm_state, fsm_data, conf>>

\* a test that leaves the owner of the cart out
OwnedItem_mut(u, item_id) == {ci \in cart_items : ci.id = item_id}

\* the row get_cart_item finds, with the owner of its cart
OwnedItem(u, item_id) ==
  {ci \in cart_items : ci.id = item_id /\
     \E c \in carts : c.id = ci.cart_id /\ c.tg_id = u}

\* cart.py increase_cart_item
increase_cart_item(u, item_id) ==
  /\ OwnedItem(u, item_id) # {}
  /\ LET e == CHOOSE ci \in OwnedItem(u, item_id) : TRUE IN
     /\ e.quantity < MaxQty
     /\ cart_items' = RefreshCartView(
          (cart_items \ {e}) \cup {[e EXCEPT !.quantity = e.quantity + 1]}, u)
  /\ UNCHANGED <<products, carts, orders, order_items,
                 fsm_state, fsm_data, conf>>

\* a decrease by two
new_quantity_mut(cart_item) == cart_item.quantity - 2

\* decrease_cart_item, line 132
new_quantity(cart_item) == cart_item.quantity - 1

\* cart.py decrease_cart_item
decrease_cart_item(u, item_id) ==
  /\ OwnedItem(u, item_id) # {}
  /\ LET e == CHOOSE ci \in OwnedItem(u, item_id) : TRUE
     IN cart_items' = RefreshCartView(
          IF new_quantity(e) <= 0
          THEN DeleteItems(cart_items, {e.id})
          ELSE (cart_items \ {e}) \cup {[e EXCEPT !.quantity = new_quantity(e)]}, u)
  /\ UNCHANGED <<products, carts, orders, order_items,
                 fsm_state, fsm_data, conf>>

\* cart.py remove_cart_item
remove_cart_item(u, item_id) ==
  /\ OwnedItem(u, item_id) # {}
  /\ cart_items' = RefreshCartView(DeleteItems(cart_items, {item_id}), u)
  /\ UNCHANGED <<products, carts, orders, order_items,
                 fsm_state, fsm_data, conf>>

\* a DELETE without the WHERE clause
clear_cart_rows_mut(rows, cart_id) == {}

\* CartManager.clear_cart: DELETE FROM cart_items WHERE cart_id = :cart_id
clear_cart_rows(rows, cart_id) == {ci \in rows : ci.cart_id # cart_id}

\* cart.py clear_cart (the "cart_clear" button)
clear_cart(u) ==
  /\ get_cart_by_user(u).items # <<>>
  /\ cart_items' = RefreshCartView(
       clear_cart_rows(cart_items, get_cart_by_user(u).id), u)
  /\ UNCHANGED <<products, carts, orders, order_items,
                 fsm_state, fsm_data, conf>>

(* ------------------------- catalogue writes --------------------------- *)
\* an update that rewrites the price stored in the product's order items
update_product_order_items_mut(p, price) ==
  {[oi EXCEPT !.price = IF oi.product_id = p THEN price ELSE oi.price] : oi \in order_items}

\* the rows ProductManager.update_product leaves in order_items / orders
update_product_order_items(p, price) == order_items
update_product_orders(p, price) == orders

\* ProductManager.update_product with price and is_active set
update_product(p, price, active) ==
  /\ products[p].exists
  /\ products' = [products EXCEPT ![p] =
                    [exists |-> TRUE, category_id |-> products[p].category_id,
                     price |-> price, is_active |-> active]]
  /\ products' # products
  /\ order_items' = update_product_order_items(p, price)
  /\ orders' = update_product_orders(p, price)
  /\ UNCHANGED <<carts, cart_items, fsm_state, fsm_data, conf>>

\* ProductManager.delete_product as called by the remove_item button.  The
\* unit of work nulls order_items.product_id of the product's order items,
\* a NOT NULL column, so the delete raises while an order item refers to the
\* product; cart_items rows are left to the database (passive_deletes), and
\* the connection does not switch SQLite foreign keys on.
delete_product(p) ==
  /\ products[p].exists
  /\ ~\E oi \in order_items : oi.product_id = p
  /\ products' = [products EXCEPT ![p] =
                    NoProductRow]
  /\ UNCHANGED <<carts, cart_items, orders, order_items,
                 fsm_state, fsm_data, conf>>

(* ------------------- CartManager, called directly --------------------- *)
\* the value a direct call returned: which call it was, what it returned,
\* and the cart when the call returns one
Returned(op, value, cart) == [op |-> op, value |-> value, cart |-> cart]

\* the direct calls leave the dialogue and the running tasks alone
DirectCall == UNCHANGED <<users, categories, products, carts, orders, order_items,
                          fsm_state, fsm_data, conf, events, add_task>>

\* CartManager.add_cart_item with quantity 1.  The commit raises
\* IntegrityError when the cart already holds the product
\* (uq_cartitem_cart_product), and nothing is stored
CartManager_add_cart_item(cart_id, product_id) ==
  /\ NextCartItemId <= MaxCartItemId
  /\ IF get_cart_item_by_product(cart_id, product_id) # {}
     THEN /\ cart_items' = cart_items
          /\ ret' = Returned("add_cart_item", "IntegrityError", NoCart)
     ELSE /\ cart_items' = cart_items \cup
               {[id |-> NextCartItemId, cart_id |-> cart_id,
                 product_id |-> product_id, quantity |-> 1]}
          /\ ret' = Returned("add_cart_item", "item", NoCart)
  /\ DirectCall

\* CartManager.update_cart_item_count.  A missing row returns None; the
\* quantity is assigned as given, and the commit of a quantity that is not
\* positive raises IntegrityError (CHECK quantity > 0), the row staying as
\* it was
CartManager_update_cart_item_count(cart_item_id, quantity) ==
  /\ IF ~\E ci \in cart_items : ci.id = cart_item_id
     THEN /\ cart_items' = cart_items
          /\ ret' = Returned("update_cart_item_count", "None", NoCart)
     ELSE IF quantity <= 0
     THEN /\ cart_items' = cart_items
          /\ ret' = Returned("update_cart_item_count", "IntegrityError", NoCart)
     ELSE /\ cart_items' =
               {IF ci.id = cart_item_id THEN [ci EXCEPT !.quantity = quantity] ELSE ci :
                  ci \in cart_items}
          /\ ret' = Returned("update_cart_item_count", "item", NoCart)
  /\ DirectCall

\* a delete that always reports a deleted row
delete_cart_item_result_mut(cart_item_id) == "True"

\* CartManager.delete_cart_item, lines 146-152: what it returns
delete_cart_item_result(cart_item_id) ==
  IF \E ci \in cart_items : ci.id = cart_item_id THEN "True" ELSE "False"

\* CartManager.delete_cart_item
CartManager_delete_cart_item(cart_item_id) ==
  /\ cart_items' = DeleteItems(cart_items, {cart_item_id})
  /\ ret' = Returned("delete_cart_item", delete_cart_item_result(cart_item_id), NoCart)
  /\ DirectCall

\* CartManager.clear_cart
CartManager_clear_cart(cart_id) ==
  /\ cart_items' = clear_cart_rows(cart_items, cart_id)
  /\ ret' = Returned("clear_cart", "None", NoCart)
  /\ DirectCall

\* shared.py sanitize_cart on the cart with the given id, freshly loaded
sanitize_cart(cart_id) ==
  LET cart == get_cart(cart_id)
  IN /\ cart.id # 0
     /\ cart_items' = DeleteItems(cart_items, SanitizeIds(cart))
     /\ ret' = Returned("sanitize_cart", "cart", sanitize_cart_result(cart))
     /\ DirectCall

(* ---------------- add_product_to_cart, call by call -------------------- *)
\* Each CartManager call of add_product_to_cart is a suspension point at
\* which another add_product_to_cart task of the same user can run.
AddEnded == {"idle", "done", "rejected", "failed"}

\* an add_product_to_cart task that has ended: what it ended with is kept
EndedAdd(t, pc, error) == [IdleAdd EXCEPT !.pc = pc, !.error = error,
                                          !.tg_id = t.tg_id, !.product_id = t.product_id]

AddStep == UNCHANGED <<users, categories, products, orders, order_items,
                       fsm_state, fsm_data, conf, events, ret>>

\* lines 68-73: the product is loaded and tested
add_load(t, u, p) ==
  /\ add_task[t].pc \in AddEnded
  /\ add_task' = [add_task EXCEPT ![t] =
       IF CanBeAdded(LoadProduct(p))
       THEN [IdleAdd EXCEPT !.pc = "get_cart", !.tg_id = u, !.product_id = p]
       ELSE EndedAdd([tg_id |-> u, product_id |-> p], "rejected", "none")]
  /\ UNCHANGED <<carts, cart_items>>
  /\ AddStep

\* line 75: CartManager.get_cart_by_user
add_get_cart(t) ==
  LET cart == get_cart_by_user(add_task[t].tg_id)
  IN /\ add_task[t].pc = "get_cart"
     /\ add_task' = [add_task EXCEPT ![t].cart_id = cart.id,
                       ![t].pc = IF cart.id = 0 THEN "create_cart" ELSE "get_item"]
     /\ UNCHANGED <<carts, cart_items>>
     /\ AddStep

\* line 77: CartManager.create_cart.  carts.tg_id is unique: the commit
\* raises IntegrityError when the user has a cart by now, and the handler
\* has no except clause
add_create_cart(t) ==
  LET u == add_task[t].tg_id
      id == Cardinality(carts) + 1
  IN /\ add_task[t].pc = "create_cart"
     /\ IF \E c \in carts : c.tg_id = u
        THEN /\ carts' = carts
             /\ add_task' = [add_task EXCEPT ![t] =
                               EndedAdd(add_task[t], "failed", "carts.tg_id")]
        ELSE /\ carts' = carts \cup {[id |-> id, tg_id |-> u]}
             /\ add_task' = [add_task EXCEPT ![t].cart_id = id, ![t].pc = "get_item"]
     /\ UNCHANGED cart_items
     /\ AddStep

\* lines 79-81: CartManager.get_cart_item_by_product
add_get_item(t) ==
  LET existing == get_cart_item_by_product(add_task[t].cart_id, add_task[t].product_id)
  IN /\ add_task[t].pc = "get_item"
     /\ add_task' = [add_task EXCEPT ![t] =
          IF existing = {} THEN [@ EXCEPT !.pc = "add_item"]
          ELSE LET e == CHOOSE ci \in existing : TRUE
               IN [@ EXCEPT !.pc = "update_item", !.existing_id = e.id,
                            !.existing_quantity = e.quantity]]
     /\ UNCHANGED <<carts, cart_items>>
     /\ AddStep

\* lines 83-87: CartManager.add_cart_item with quantity 1; the commit raises
\* IntegrityError when the cart holds the product by now
add_add_cart_item(t) ==
  LET a == add_task[t]
  IN /\ a.pc = "add_item"
     /\ NextCartItemId <= MaxCartItemId
     /\ IF get_cart_item_by_product(a.cart_id, a.product_id) # {}
        THEN /\ cart_items' = cart_items
             /\ add_task' = [add_task EXCEPT ![t] =
                               EndedAdd(a, "failed", "uq_cartitem_cart_product")]
        ELSE /\ cart_items' = cart_items \cup
                  {[id |-> NextCartItemId, cart_id |-> a.cart_id,
                    product_id |-> a.product_id, quantity |-> 1]}
             /\ add_task' = [add_task EXCEPT ![t] = EndedAdd(a, "done", "none")]
     /\ UNCHANGED carts
     /\ AddStep

\* lines 88-95: CartManager.update_cart_item_count with the quantity read
\* at lines 79-81 plus one
add_update_cart_item_count(t) ==
  LET a == add_task[t]
  IN /\ a.pc = "update_item"
     /\ a.existing_quantity < MaxQty
     /\ cart_items' =
          {IF ci.id = a.existing_id
           THEN [ci EXCEPT !.quantity = a.existing_quantity + 1] ELSE ci :
             ci \in cart_items}
     /\ add_task' = [add_task EXCEPT ![t] = EndedAdd(a, "done", "none")]
     /\ UNCHANGED carts
     /\ AddStep

(* ------------------------- checkout dialogue -------------------------- *)
\* checkout.py start_checkout
start_checkout(u) ==
  LET cart == get_cart_by_user(u)
      cleaned_cart == sanitize_cart_result(cart)
  IN /\ cart.id # 0 /\ cart.items # <<>>
     /\ cart_items' = DeleteItems(cart_items, SanitizeIds(cart))
     /\ IF cleaned_cart.items = <<>>
        THEN UNCHANGED <<fsm_state, fsm_data>>
        ELSE /\ fsm_state' = [fsm_state EXCEPT ![u] = NewDelivery.name]
             /\ fsm_data' = [fsm_data EXCEPT ![u] =
                               [EmptyData EXCEPT !.cart_id = cleaned_cart.id]]
     /\ UNCHANGED <<products, carts, orders, order_items, conf>>

\* user_message.py process_order_name
process_order_name(u, text) ==
  /\ fsm_state[u] = RegNewUser.name
  /\ Strip(text) # <<>>
  /\ fsm_data' = [fsm_data EXCEPT ![u].name = Strip(text)]
  /\ fsm_state' = [fsm_state EXCEPT ![u] = RegNewUser.phone_number]
  /\ UNCHANGED <<db, conf>>

\* user_message.py process_order_phone
process_order_phone(u, text) ==
  /\ fsm_state[u] = RegNewUser.phone_number
  /\ ~(Len(DigitsOnly(Strip(text))) < 10 \/ Len(DigitsOnly(Strip(text))) > 15)
  /\ fsm_data' = [fsm_data EXCEPT ![u].phone_number = Strip(text)]
  /\ fsm_state' = [fsm_state EXCEPT ![u] = RegNewUser.address]
  /\ UNCHANGED <<db, conf>>

\* user_message.py process_order_address
process_order_address(u, text) ==
  /\ fsm_state[u] = RegNewUser.address
  /\ Strip(text) # <<>>
  /\ fsm_data' = [fsm_data EXCEPT ![u].address = Strip(text)]
  /\ fsm_state' = [fsm_state EXCEPT ![u] = RegNewUser.delivery_method]
  /\ UNCHANGED <<db, conf>>

\* user_message.py process_delivery_method
process_delivery_method(u, text) ==
  /\ fsm_state[u] = RegNewUser.delivery_method
  /\ Strip(text) # <<>>
  /\ fsm_data' = [fsm_data EXCEPT ![u].delivery_method = Strip(text)]
  /\ fsm_state' = [fsm_state EXCEPT ![u] = RegNewUser.confirm]
  /\ UNCHANGED <<db, conf>>

\* checkout.py choose_delivery_method; select_courier is TRUE for the
\* "select_courier" button and FALSE for "select_self-delivery"
choose_delivery_method(u, select_courier) ==
  LET delivery_method == IF select_courier THEN Courier ELSE SelfPickup
      data == [fsm_data[u] EXCEPT !.delivery_method = delivery_method]
      loaded == get_cart(data.cart_id)
      cart == IF loaded.id # 0 THEN sanitize_cart_result(loaded) ELSE loaded
  IN /\ fsm_state[u] = NewDelivery.delivery_method
     /\ cart_items' = IF data.cart_id # 0 /\ loaded.id # 0
                      THEN DeleteItems(cart_items, SanitizeIds(loaded))
                      ELSE cart_items
     /\ IF data.cart_id = 0 \/ cart.id = 0 \/ cart.items = <<>>
        THEN /\ fsm_state' = ClearedState(fsm_state, u)
             /\ fsm_data' = ClearedData(fsm_data, u)
        ELSE /\ fsm_state' = [fsm_state EXCEPT ![u] = NewDelivery.confirm]
             /\ fsm_data' = [fsm_data EXCEPT ![u] = data]
     /\ UNCHANGED <<products, carts, orders, order_items, conf>>

\* a cancel handler that empties the carts
cancel_cart_items_mut == {}

\* the database tables a cancel handler leaves behind
cancel_cart_items == cart_items
cancel_orders == orders

\* cart.py cancel_order (the "cancel_order" button)
cancel_order(u) ==
  /\ fsm_state[u] # "none"
  /\ fsm_state' = ClearedState(fsm_state, u)
  /\ fsm_data' = ClearedData(fsm_data, u)
  /\ cart_items' = cancel_cart_items
  /\ orders' = cancel_orders
  /\ UNCHANGED <<products, carts, order_items, conf>>

\* callbacks.py cancel (the "cancel" button of cancel_key)
cancel(u) ==
  /\ fsm_state[u] # "none"
  /\ fsm_state' = ClearedState(fsm_state, u)
  /\ fsm_data' = ClearedData(fsm_data, u)
  /\ cart_items' = cancel_cart_items
  /\ orders' = cancel_orders
  /\ UNCHANGED <<products, carts, order_items, conf>>

(* --------------------------- confirm_order ---------------------------- *)
\* positions of a confirm_order task: between them the task is suspended in
\* a database call (or, at "notify", in the Telegram call) and others run
Finished == {"idle", "done", "failed", "aborted"}
Running == {"sanitize", "create_order", "items", "clear", "notify"}

\* a task that has ended: its locals are gone; the id of the Order it
\* committed, the rows its sanitize pass deleted and whether it cleared the
\* cart are remembered for the properties
Ended(t, pc) ==
  [IdleTask EXCEPT !.pc = pc, !.order_id = t.order_id,
                   !.removed = t.removed, !.cleared = t.cleared]

\* a task slot is free when its task has ended; the second slot is taken
\* only while the first is busy
FreeSlot(h) ==
  /\ conf[h].pc \in Finished
  /\ h = "h1" \/ conf["h1"].pc \notin Finished

\* first index >= i of cart.items that gets an order item (product not None)
NextLine(items, i) ==
  IF \E j \in LineIdx(items) : j >= i
  THEN CHOOSE j \in LineIdx(items) : j >= i /\ \A k \in LineIdx(items) : k >= i => j <= k
  ELSE 0

\* a loop that leaves after its first pass
after_order_item_mut(next) == "clear"

\* where confirm_order stands after a pass of its loop over cart.items: in
\* the loop while a line is left, at clear_cart after the last one
after_order_item(next) == IF next = 0 THEN "clear" ELSE "items"

\* the Order that OrderManager.create_order builds from the CreateOrder payload
order_row(id, order_number, tg_id, data, total_price) ==
  [id |-> id, order_number |-> order_number, tg_id |-> tg_id,
   total_price |-> total_price, delivery_method |-> data.delivery_method,
   status |-> "new"]

\* the OrderItem that confirm_order passes to OrderManager.create_order_item
order_item_row(order_id, item) ==
  [order_id |-> order_id, product_id |-> item.product.id,
   quantity |-> item.quantity, price |-> item.product.price]

\* a filter that lets every session through that is in some state
ConfirmFilter_mut(u) == fsm_state[u] # "none"

\* the filter of confirm_order: NewDelivery.confirm (the callback data is
\* the button's)
ConfirmFilter(u) == fsm_state[u] = NewDelivery.confirm

\* confirm_order, lines 119-130: the handler is entered in state confirm,
\* reads the FSM data and loads the cart
confirm_order_load(h, u) ==
  /\ FreeSlot(h)
  /\ ConfirmFilter(u)
  /\ LET data == fsm_data[u]
         cart == get_cart(data.cart_id)
     IN IF data.cart_id = 0 \/ cart.id = 0
        THEN /\ fsm_state' = ClearedState(fsm_state, u)
             /\ fsm_data' = ClearedData(fsm_data, u)
             /\ conf' = [conf EXCEPT ![h] = Ended(IdleTask, "aborted")]
        ELSE /\ conf' = [conf EXCEPT ![h] =
                  [IdleTask EXCEPT !.pc = "sanitize", !.tg_id = u,
                                   !.data = data, !.cart = cart]]
             /\ UNCHANGED <<fsm_state, fsm_data>>
  /\ UNCHANGED db

\* confirm_order, lines 131-159: sanitize_cart, the emptiness checks,
\* collect_cart_lines and the CreateOrder payload
confirm_order_sanitize(h) ==
  LET t == conf[h]
      cart == sanitize_cart_result(t.cart)
  IN /\ t.pc = "sanitize"
     /\ cart_items' = DeleteItems(cart_items, SanitizeIds(t.cart))
     /\ IF cart.items = <<>> \/ LineIdx(cart.items) = {}
        THEN /\ fsm_state' = ClearedState(fsm_state, t.tg_id)
             /\ fsm_data' = ClearedData(fsm_data, t.tg_id)
             /\ conf' = [conf EXCEPT ![h] =
                  Ended([t EXCEPT !.removed = SanitizeIds(t.cart)], "aborted")]
        ELSE /\ conf' = [conf EXCEPT ![h] =
                  IF ValidOrderPayload(t.data)
                  THEN [t EXCEPT !.pc = "create_order",
                                 !.removed = SanitizeIds(t.cart),
                                 !.total_price = collect_total(cart)]
                  ELSE Ended([t EXCEPT !.removed = SanitizeIds(t.cart)], "failed")]
             /\ UNCHANGED <<fsm_state, fsm_data>>
     /\ UNCHANGED <<products, carts, orders, order_items>>

\* an index that rejects nothing
order_number_taken_mut(order_number) == FALSE

\* the unique index on orders.order_number: the number is already stored
order_number_taken(order_number) == \E o \in orders : o.order_number = order_number

\* confirm_order, line 161: OrderManager.create_order commits the Order; the
\* unique index on order_number rejects a number that is already stored
confirm_order_create_order(h, order_number) ==
  LET t == conf[h]
      id == Cardinality(orders) + 1
  IN /\ t.pc = "create_order"
     /\ Cardinality(orders) < MaxOrders
     /\ IF order_number_taken(order_number)
        THEN /\ conf' = [conf EXCEPT ![h] = Ended(t, "failed")]
             /\ UNCHANGED orders
        ELSE /\ orders' = orders \cup
                  {order_row(id, order_number, t.tg_id, t.data, t.total_price)}
             /\ conf' = [conf EXCEPT ![h].pc = "items", ![h].order_id = id,
                                     ![h].idx = NextLine(t.cart.items, 1)]
     /\ UNCHANGED <<products, carts, cart_items, order_items,
                    fsm_state, fsm_data>>

\* confirm_order, lines 163-175: one pass of the loop that commits an
\* OrderItem (items whose product is None are skipped)
confirm_order_create_item(h) ==
  LET t == conf[h]
      next == NextLine(t.cart.items, t.idx + 1)
  IN /\ t.pc = "items"
     /\ order_items' = order_items \cup {order_item_row(t.order_id, t.cart.items[t.idx])}
     /\ conf' = [conf EXCEPT ![h].idx = next,
                             ![h].pc = after_order_item(next)]
     /\ UNCHANGED <<products, carts, cart_items, orders,
                    fsm_state, fsm_data>>

\* confirm_order, line 177: CartManager.clear_cart
confirm_order_clear_cart(h) ==
  LET t == conf[h]
  IN /\ t.pc = "clear"
     /\ cart_items' = clear_cart_rows(cart_items, t.cart.id)
     /\ conf' = [conf EXCEPT ![h].pc = "notify", ![h].cleared = TRUE]
     /\ UNCHANGED <<products, carts, orders, order_items,
                    fsm_state, fsm_data>>

\* confirm_order, lines 179-194: the summary is sent and the state cleared
confirm_order_finish(h) ==
  LET t == conf[h]
  IN /\ t.pc = "notify"
     /\ fsm_state' = ClearedState(fsm_state, t.tg_id)
     /\ fsm_data' = ClearedData(fsm_data, t.tg_id)
     /\ conf' = [conf EXCEPT ![h] = Ended(t, "done")]
     /\ UNCHANGED db

\* the call in which the task is suspended raises (the commit fails, the
\* database is locked or unreachable, Telegram rejects the edit) or the
\* process stops: confirm_order has no except clause, so the task ends
\* there and what its earlier calls committed stays committed
confirm_order_raise(h) ==
  /\ conf[h].pc \in Running
  /\ conf' = [conf EXCEPT ![h] = Ended(conf[h], "failed")]
  /\ UNCHANGED <<db, fsm_state, fsm_data>>

(* --------------------------- administrator ---------------------------- *)
\* db/enums.py OrderStatus
OrderStatus == {"new", "processing", "shipped", "delivered", "canceled"}

\* the status part of the callback data "order_status:<id>:<status>"
StatusInputs == OrderStatus \cup {"unknown"}

\* an update that writes nothing
update_order_status_mut(order_id, new_status) == orders

\* OrderManager.update_order with UpdateOrder(status=new_status): the one
\* field that was set is assigned to the row with the id, if there is one
update_order_status(order_id, new_status) ==
  {IF o.id = order_id THEN [o EXCEPT !.status = new_status] ELSE o : o \in orders}

\* a handler that always reports success
change_order_status_answer_mut(order_id, status_raw) == "updated"

\* what change_order_status answers the administrator: OrderStatus(status_raw)
\* raises ValueError for a token outside the enumeration and the except
\* clause answers and returns; update_order returns None for an id without
\* a row and the handler answers and returns; otherwise it reports the
\* new status
change_order_status_answer(order_id, status_raw) ==
  IF status_raw \notin OrderStatus THEN "unknown status"
  ELSE IF ~\E o \in orders : o.id = order_id THEN "order not found"
  ELSE "updated"

\* admin_callbacks.py change_order_status, after the callback data was
\* split into the order id and the status token
change_order_status(order_id, status_raw) ==
  /\ orders' = IF status_raw \in OrderStatus
               THEN update_order_status(order_id, status_raw)
               ELSE orders
  /\ ret' = Returned("change_order_status",
                     change_order_status_answer(order_id, status_raw), NoCart)
  /\ UNCHANGED <<products, carts, cart_items, order_items,
                 fsm_state, fsm_data, conf>>

(* --------------------- managers, called directly ---------------------- *)
\* the manager calls leave the dialogue and the running tasks alone
ManagerCall == UNCHANGED <<fsm_state, fsm_data, conf, events, add_task>>

\* the id SQLite gives the next Order row: one above the highest stored id
NextOrderId ==
  IF orders = {} THEN 1
  ELSE (CHOOSE i \in {o.id : o \in orders} : \A o \in orders : o.id <= i) + 1

\* schemas/order.py CreateOrder.status: OrderStatus.NEW unless the caller
\* sets it
DefaultStatus == "new"

\* what a caller passes as status: a status, or nothing
PayloadStatus(status) == IF status = "unset" THEN DefaultStatus ELSE status

\* OrderManager.create_order with a payload of order_number, tg_id and an
\* optional status; total_price and delivery_method keep their defaults.
\* The commit raises IntegrityError on a stored order number
OrderManager_create_order(order_number, tg_id, status) ==
  /\ NextOrderId <= MaxOrders
  /\ IF order_number_taken(order_number)
     THEN /\ orders' = orders
          /\ ret' = Returned("create_order", "IntegrityError", NoCart)
     ELSE /\ orders' = orders \cup
               {[order_row(NextOrderId, order_number, tg_id, EmptyData, 0)
                   EXCEPT !.status = PayloadStatus(status)]}
          /\ ret' = Returned("create_order", "order", NoCart)
  /\ UNCHANGED <<users, categories, products, carts, cart_items, order_items>>
  /\ ManagerCall

\* OrderManager.update_order with UpdateOrder(status=new_status)
OrderManager_update_order(order_id, new_status) ==
  /\ orders' = update_order_status(order_id, new_status)
  /\ ret' = Returned("update_order",
                     IF \E o \in orders : o.id = order_id THEN "order" ELSE "None",
                     NoCart)
  /\ UNCHANGED <<users, categories, products, carts, cart_items, order_items>>
  /\ ManagerCall

\* OrderManager.delete_order: the Order row is deleted.  Order.items is
\* declared with passive_deletes, so the rows of order_items are left to
\* the database, which does not enforce the foreign key
OrderManager_delete_order(order_id) ==
  /\ orders' = {o \in orders : o.id # order_id}
  /\ ret' = Returned("delete_order",
                     IF \E o \in orders : o.id = order_id THEN "True" ELSE "False",
                     NoCart)
  /\ UNCHANGED <<users, categories, products, carts, cart_items, order_items>>
  /\ ManagerCall

\* a subquery without the WHERE clause
status_subquery_mut(status) == {o.id : o \in orders}

\* select(Order.id).where(Order.status == status)
status_subquery(status) == {o.id : o \in {x \in orders : x.status = status}}

\* OrderManager.count_orders_by_status: count(*) over the subquery
OrderManager_count_orders_by_status(status) ==
  /\ ret' = [op |-> "count_orders_by_status",
             value |-> Cardinality(status_subquery(status)), cart |-> NoCart]
  /\ UNCHANGED db
  /\ ManagerCall

\* OrderManager.list_orders(status=status): the rows with the status (their
\* order, by created_at, is not kept)
OrderManager_list_orders(status) ==
  /\ ret' = [op |-> "list_orders",
             value |-> {o \in orders : o.status = status}, cart |-> NoCart]
  /\ UNCHANGED db
  /\ ManagerCall

\* UserManager.delete_user.  session.delete(user) cascades to User.orders
\* (cascade "all, delete-orphan"): the orders of the user are loaded and
\* deleted with the user, their order items left to the database
\* (passive_deletes).  User.cart has no delete cascade: the flush sets
\* carts.tg_id of the user's cart to NULL, a NOT NULL column, so the commit
\* raises IntegrityError and nothing is deleted while the user has a cart
UserManager_delete_user(user_id) ==
  LET found == {u \in users : u.id = user_id}
  IN /\ IF found = {}
        THEN /\ ret' = Returned("delete_user", "False", NoCart)
             /\ UNCHANGED <<users, orders>>
        ELSE LET user == CHOOSE u \in found : TRUE
             IN IF \E c \in carts : c.tg_id = user.tg_id
                THEN /\ ret' = Returned("delete_user", "IntegrityError", NoCart)
                     /\ UNCHANGED <<users, orders>>
                ELSE /\ ret' = Returned("delete_user", "True", NoCart)
                     /\ users' = users \ {user}
                     /\ orders' = {o \in orders : o.tg_id # user.tg_id}
     /\ UNCHANGED <<categories, products, carts, cart_items, order_items>>
     /\ ManagerCall

\* Category.products: the products of a category
ProductsOf(category_id) ==
  {p \in ProductIds : products[p].exists /\ products[p].category_id = category_id}

\* CategoryManager.delete_category, as the remove_category button calls it.
\* session.delete(category) cascades to Category.products (cascade "all,
\* delete-orphan"): the products of the category are loaded and deleted with
\* it.  For each of them the flush sets order_items.product_id of its order
\* items to NULL, a NOT NULL column, so the commit raises IntegrityError and
\* nothing is deleted while an order item refers to one of the products;
\* their cart items are left to the database (passive_deletes)
CategoryManager_delete_category(category_id) ==
  /\ IF category_id \notin categories
     THEN /\ ret' = Returned("delete_category", "False", NoCart)
          /\ UNCHANGED <<categories, products>>
     ELSE IF \E oi \in order_items : oi.product_id \in ProductsOf(category_id)
          THEN /\ ret' = Returned("delete_category", "IntegrityError", NoCart)
               /\ UNCHANGED <<categories, products>>
          ELSE /\ ret' = Returned("delete_category", "True", NoCart)
               /\ categories' = categories \ {category_id}
               /\ products' = [p \in ProductIds |->
                                 IF p \in ProductsOf(category_id) THEN NoProductRow
                                 ELSE products[p]]
  /\ UNCHANGED <<users, carts, cart_items, orders, order_items>>
  /\ ManagerCall

(* ------------------------- callback data ------------------------------ *)
\* Callback data is a string: a sequence of characters, in which the name
\* of the button and the name of a status each stand as one symbol.
RECURSIVE split(_)
\* str.split(":"): the fields between the colons, empty fields included
split(s) ==
  IF s = <<>> THEN << <<>> >>
  ELSE LET rest == split(Tail(s))
       IN IF Head(s) = ":" THEN << <<>> >> \o rest
          ELSE << <<Head(s)>> \o Head(rest) >> \o Tail(rest)

\* the texts int() accepts among the fields drawn here: one or more digits
IsIntLiteral(f) == f # <<>> /\ \A i \in 1..Len(f) : IsDigit(f[i])

\* the value of a decimal digit
DigitValue(c) ==
  CASE c = "0" -> 0 [] c = "1" -> 1 [] c = "2" -> 2 [] c = "3" -> 3
    [] c = "4" -> 4 [] c = "5" -> 5 [] c = "6" -> 6 [] c = "7" -> 7
    [] c = "8" -> 8 [] c = "9" -> 9

RECURSIVE int(_)
\* int() of a text of digits
int(f) ==
  IF Len(f) = 1 THEN DigitValue(f[1])
  ELSE 10 * int(SubSeq(f, 1, Len(f) - 1)) + DigitValue(f[Len(f)])

\* the status token of "order_status:<id>:<status>" as OrderStatus() sees it:
\* one of the five values, or a text that is none of them
StatusToken(f) == IF Len(f) = 1 /\ f[1] \in OrderStatus THEN f[1] ELSE "unknown"

\* int() raised ValueError, or the unpacking of the fields did: no handler
\* catches it and no error handler is registered, so the task of the handler
\* ends with the exception and nothing was written before it
RaisedValueError(op) ==
  /\ ret' = Returned(op, "ValueError", NoCart)
  /\ UNCHANGED <<db, fsm_state, fsm_data, conf>>

\* cart.py add_product_to_cart from its decorator on: the filter
\* F.data.startswith("add_to_cart:") and int(call.data.split(":")[1]); fields
\* after the second are never read
press_add_to_cart(u, data) ==
  /\ Len(data) >= 2 /\ data[1] = "add_to_cart" /\ data[2] = ":"
  /\ LET fields == split(data)
     IN IF IsIntLiteral(fields[2])
        THEN /\ int(fields[2]) \in ProductIds
             /\ add_product_to_cart(u, int(fields[2]))
             /\ ret' = Returned("add_to_cart", "answered", NoCart)
        ELSE RaisedValueError("add_to_cart")

\* the early return of a cart handler: the item is missing or its cart is
\* another user's, the handler answers that the item is not in the cart
NotFound(op) ==
  /\ ret' = Returned(op, "not found", NoCart)
  /\ UNCHANGED <<db, fsm_state, fsm_data, conf>>

\* cart.py increase_cart_item with the answer it gives
cart_increase_event(u, item_id) ==
  IF OwnedItem(u, item_id) = {} THEN NotFound("cart_increase")
  ELSE /\ increase_cart_item(u, item_id)
       /\ ret' = Returned("cart_increase", "answered", NoCart)

\* cart.py decrease_cart_item with the answer it gives
cart_decrease_event(u, item_id) ==
  IF OwnedItem(u, item_id) = {} THEN NotFound("cart_decrease")
  ELSE /\ decrease_cart_item(u, item_id)
       /\ ret' = Returned("cart_decrease", "answered", NoCart)

\* cart.py remove_cart_item with the answer it gives
cart_remove_event(u, item_id) ==
  IF OwnedItem(u, item_id) = {} THEN NotFound("cart_remove")
  ELSE /\ remove_cart_item(u, item_id)
       /\ ret' = Returned("cart_remove", "answered", NoCart)

\* cart.py decrease_cart_item from its decorator on
press_cart_decrease(u, data) ==
  /\ Len(data) >= 2 /\ data[1] = "cart_decrease" /\ data[2] = ":"
  /\ LET fields == split(data)
     IN IF IsIntLiteral(fields[2])
        THEN cart_decrease_event(u, int(fields[2]))
        ELSE RaisedValueError("cart_decrease")

\* admin_callbacks.py change_order_status from its decorator on: the fields
\* are unpacked into exactly three names, and int(order_raw) stands before
\* the try block
press_order_status(data) ==
  /\ Len(data) >= 2 /\ data[1] = "order_status" /\ data[2] = ":"
  /\ LET fields == split(data)
     IN IF Len(fields) = 3 /\ IsIntLiteral(fields[2])
        THEN change_order_status(int(fields[2]), StatusToken(fields[3]))
        ELSE RaisedValueError("change_order_status")

(* ------------------------- specifications ----------------------------- *)
ItemIds == 1..MaxCartItemId

\* a handler that runs while no order is being confirmed, or that belongs
\* to the confirmation itself
Plain(A) == A /\ UNCHANGED <<users, categories, events, add_task, ret>>

\* a handler that reports how it ended
Answered(A) == A /\ UNCHANGED <<users, categories, events, add_task>>

\* a cart or catalogue event that arrives after the confirmation prompt
Concurrent(A) ==
  /\ events < MaxEvents /\ A /\ events' = events + 1
  /\ UNCHANGED <<users, categories, add_task, ret>>

\* Spec: the bot from an empty shop with a filled catalogue, up to the
\* confirmation prompt
Next ==
  \/ \E u \in Users, p \in ProductIds : Plain(add_product_to_cart(u, p))
  \/ \E u \in Users, i \in ItemIds : Plain(increase_cart_item(u, i))
  \/ \E u \in Users, i \in ItemIds : Plain(decrease_cart_item(u, i))
  \/ \E u \in Users, i \in ItemIds : Plain(remove_cart_item(u, i))
  \/ \E u \in Users : Plain(clear_cart(u))
  \/ \E p \in ProductIds, price \in Prices, active \in BOOLEAN :
       Plain(update_product(p, price, active))
  \/ \E p \in ProductIds : Plain(delete_product(p))
  \/ \E u \in Users : Plain(start_checkout(u))
  \/ \E u \in Users, text \in NameInputs : Plain(process_order_name(u, text))
  \/ \E u \in Users, text \in PhoneInputs : Plain(process_order_phone(u, text))
  \/ \E u \in Users, text \in AddressInputs : Plain(process_order_address(u, text))
  \/ \E u \in Users, text \in DeliveryInputs : Plain(process_delivery_method(u, text))
  \/ \E u \in Users, c \in BOOLEAN : Plain(choose_delivery_method(u, c))
  \/ \E u \in Users : Plain(cancel_order(u))
  \/ \E u \in Users : Plain(cancel(u))

Spec == Init /\ [][Next]_vars

\* SpecShop: the bot from the empty shop with nobody in checkout.  No step
\* from there sets a state that process_order_name, process_order_phone,
\* process_order_address, process_delivery_method, choose_delivery_method
\* or confirm_order filters on, so these handlers take no step here.
InitShop ==
  /\ products = InitProducts
  /\ carts = {}
  /\ cart_items = {}
  /\ orders = {}
  /\ order_items = {}
  /\ fsm_state = [u \in Users |-> "none"]
  /\ fsm_data = [u \in Users |-> EmptyData]
  /\ conf = [h \in Handlers |-> IdleTask]
  /\ events = 0
  /\ NoCalls
  /\ Registered

NextShop ==
  \/ \E u \in Users, p \in ProductIds : Plain(add_product_to_cart(u, p))
  \/ \E u \in Users, i \in ItemIds : Plain(increase_cart_item(u, i))
  \/ \E u \in Users, i \in ItemIds : Plain(decrease_cart_item(u, i))
  \/ \E u \in Users, i \in ItemIds : Plain(remove_cart_item(u, i))
  \/ \E u \in Users : Plain(clear_cart(u))
  \/ \E p \in ProductIds, price \in Prices, active \in BOOLEAN :
       Plain(update_product(p, price, active))
  \/ \E p \in ProductIds : Plain(delete_product(p))
  \/ \E u \in Users : Plain(start_checkout(u))
  \/ \E u \in Users : Plain(cancel_order(u))
  \/ \E u \in Users : Plain(cancel(u))

SpecShop == InitShop /\ [][NextShop]_vars

\* SpecFlow: the checkout dialogue with its confirmation, one confirm_order
\* task at a time, for a user who only adds to the cart
NextFlow ==
  \/ \E u \in Users, p \in ProductIds : Plain(add_product_to_cart(u, p))
  \/ \E u \in Users : Plain(start_checkout(u))
  \/ \E u \in Users, text \in NameInputs : Plain(process_order_name(u, text))
  \/ \E u \in Users, text \in PhoneInputs : Plain(process_order_phone(u, text))
  \/ \E u \in Users, text \in AddressInputs : Plain(process_order_address(u, text))
  \/ \E u \in Users, text \in DeliveryInputs : Plain(process_delivery_method(u, text))
  \/ \E u \in Users, c \in BOOLEAN : Plain(choose_delivery_method(u, c))
  \/ \E u \in Users : Plain(cancel_order(u))
  \/ \E u \in Users : Plain(cancel(u))
  \/ \E u \in Users : Plain(confirm_order_load("h1", u))
  \/ Plain(confirm_order_sanitize("h1"))
  \/ \E n \in OrderNumbers : Plain(confirm_order_create_order("h1", n))
  \/ Plain(confirm_order_create_item("h1"))
  \/ Plain(confirm_order_clear_cart("h1"))
  \/ Plain(confirm_order_finish("h1"))
  \/ Plain(confirm_order_raise("h1"))

SpecFlow == Init /\ [][NextFlow]_vars

\* the data of a session that went through the dialogue with the inputs
\* above and pressed the courier button
ReadyData ==
  [cart_id |-> 1, name |-> Ann, phone_number |-> Phone11,
   address |-> MainSt, delivery_method |-> Courier]

\* SpecConfirm starts with the session at the confirmation prompt (state
\* NewDelivery.confirm, every field collected, one or both products in the
\* cart).
\* From there confirm_order runs, one task at a time, while the cart menu
\* and the administrator stay active.
InitConfirm ==
  /\ products = InitProducts
  /\ carts = {[id |-> 1, tg_id |-> 1]}
  /\ cart_items \in {InitCartItems, {ci \in InitCartItems : ci.id = 1}}
  /\ orders = {}
  /\ order_items = {}
  /\ fsm_state = [u \in Users |-> NewDelivery.confirm]
  /\ fsm_data = [u \in Users |-> ReadyData]
  /\ conf = [h \in Handlers |-> IdleTask]
  /\ events = 0
  /\ NoCalls
  /\ Registered

NextConfirm ==
  \/ \E u \in Users : Plain(confirm_order_load("h1", u))
  \/ Plain(confirm_order_sanitize("h1"))
  \/ \E n \in OrderNumbers : Plain(confirm_order_create_order("h1", n))
  \/ Plain(confirm_order_create_item("h1"))
  \/ Plain(confirm_order_clear_cart("h1"))
  \/ Plain(confirm_order_finish("h1"))
  \/ Plain(confirm_order_raise("h1"))
  \/ \E u \in Users : Plain(cancel_order(u))
  \/ \E u \in Users : Plain(cancel(u))
  \/ \E u \in Users, p \in ProductIds : Concurrent(add_product_to_cart(u, p))
  \/ \E u \in Users, i \in ItemIds : Concurrent(increase_cart_item(u, i))
  \/ \E u \in Users, i \in ItemIds : Concurrent(decrease_cart_item(u, i))
  \/ \E u \in Users, i \in ItemIds : Concurrent(remove_cart_item(u, i))
  \/ \E u \in Users : Concurrent(clear_cart(u))
  \/ \E p \in ProductIds, price \in Prices, active \in BOOLEAN :
       Concurrent(update_product(p, price, active))
  \/ \E p \in ProductIds : Concurrent(delete_product(p))

SpecConfirm == InitConfirm /\ [][NextConfirm]_vars

\* SpecDouble: the confirm button is pressed again while an earlier press is
\* still being handled; nothing else happens meanwhile
NextDouble ==
  \/ \E h \in Handlers, u \in Users : Plain(confirm_order_load(h, u))
  \/ \E h \in Handlers : Plain(confirm_order_sanitize(h))
  \/ \E h \in Handlers, n \in OrderNumbers : Plain(confirm_order_create_order(h, n))
  \/ \E h \in Handlers : Plain(confirm_order_create_item(h))
  \/ \E h \in Handlers : Plain(confirm_order_clear_cart(h))
  \/ \E h \in Handlers : Plain(confirm_order_finish(h))
  \/ \E h \in Handlers : Plain(confirm_order_raise(h))
  \/ \E u \in Users : Plain(cancel_order(u))

SpecDouble == InitConfirm /\ [][NextDouble]_vars

\* SpecCart: the CartManager methods and sanitize_cart called directly, as
\* the tests call them, on two carts of two users; since the products were
\* put into the carts, none, one or both of them were switched off or deleted
CartIds == {1, 2}
QuantityInputs == (0 - 1)..MaxQty

InitCart ==
  /\ products \in {InitProducts,
                   [InitProducts EXCEPT ![2].is_active = FALSE],
                   [InitProducts EXCEPT ![2] = NoProductRow],
                   [InitProducts EXCEPT ![1].is_active = FALSE, ![2] = NoProductRow]}
  /\ carts = {[id |-> 1, tg_id |-> 1], [id |-> 2, tg_id |-> 2]}
  /\ cart_items = InitCartItems \cup
                    {[id |-> 3, cart_id |-> 2, product_id |-> 1, quantity |-> 1]}
  /\ orders = {}
  /\ order_items = {}
  /\ fsm_state = [u \in Users |-> "none"]
  /\ fsm_data = [u \in Users |-> EmptyData]
  /\ conf = [h \in Handlers |-> IdleTask]
  /\ events = 0
  /\ NoCalls
  /\ Registered

NextCart ==
  \/ \E c \in CartIds, p \in ProductIds : CartManager_add_cart_item(c, p)
  \/ \E i \in ItemIds, q \in QuantityInputs : CartManager_update_cart_item_count(i, q)
  \/ \E i \in ItemIds : CartManager_delete_cart_item(i)
  \/ \E c \in CartIds : CartManager_clear_cart(c)
  \/ \E c \in CartIds : sanitize_cart(c)

SpecCart == InitCart /\ [][NextCart]_vars

\* SpecAdd: the add-to-cart button pressed by one user, a press being
\* handled while an earlier one is still running; the catalogue holds an
\* active first product and a second product that is active, inactive or
\* deleted
InitAdd ==
  /\ products \in {InitProducts,
                   [InitProducts EXCEPT ![2].is_active = FALSE],
                   [InitProducts EXCEPT ![2] = NoProductRow]}
  /\ carts = {}
  /\ cart_items = {}
  /\ orders = {}
  /\ order_items = {}
  /\ fsm_state = [u \in Users |-> "none"]
  /\ fsm_data = [u \in Users |-> EmptyData]
  /\ conf = [h \in Handlers |-> IdleTask]
  /\ events = 0
  /\ NoCalls
  /\ Registered

NextAdd ==
  \/ \E t \in AddTasks, u \in Users, p \in ProductIds : add_load(t, u, p)
  \/ \E t \in AddTasks : add_get_cart(t)
  \/ \E t \in AddTasks : add_create_cart(t)
  \/ \E t \in AddTasks : add_get_item(t)
  \/ \E t \in AddTasks : add_add_cart_item(t)
  \/ \E t \in AddTasks : add_update_cart_item_count(t)

SpecAdd == InitAdd /\ [][NextAdd]_vars

\* SpecAdmin: an order is confirmed and the administrator presses the
\* status buttons of the order card
OrderIds == 1..MaxOrders

NextAdmin ==
  \/ \E u \in Users : Plain(confirm_order_load("h1", u))
  \/ Plain(confirm_order_sanitize("h1"))
  \/ \E n \in OrderNumbers : Plain(confirm_order_create_order("h1", n))
  \/ Plain(confirm_order_create_item("h1"))
  \/ Plain(confirm_order_clear_cart("h1"))
  \/ Plain(confirm_order_finish("h1"))
  \/ Plain(confirm_order_raise("h1"))
  \/ \E o \in OrderIds, st \in StatusInputs : Answered(change_order_status(o, st))

SpecAdmin == InitConfirm /\ [][NextAdmin]_vars

\* the arguments a button press can carry after the name of the button:
\* an id, a text that is no number, nothing, an id with a status, and an
\* argument too many
ArgInputs ==
  {<<"1">>, <<"2">>, <<"x">>, <<>>, <<"1", ":", "2">>,
   <<"1", ":", "canceled">>, <<"2", ":", "new">>, <<"1", ":", "lost">>,
   <<"x", ":", "new">>, <<"1", ":", "new", ":", "1">>}

\* the callback data of a button with these arguments
Data(name, args) == <<name, ":">> \o args

\* SpecPress: the shop after user 1 ordered product 1: the order is stored,
\* the cart is empty again, nobody is in checkout.  Buttons are pressed with
\* the callback data a Telegram client can send.
InitPress ==
  /\ products = InitProducts
  /\ carts = {[id |-> 1, tg_id |-> 1]}
  /\ cart_items = {}
  /\ orders = {order_row(1, "A1", 1, ReadyData, 1)}
  /\ order_items = {[order_id |-> 1, product_id |-> 1, quantity |-> 1, price |-> 1]}
  /\ fsm_state = [u \in Users |-> "none"]
  /\ fsm_data = [u \in Users |-> EmptyData]
  /\ conf = [h \in Handlers |-> IdleTask]
  /\ events = 0
  /\ NoCalls
  /\ Registered

NextPress ==
  \/ \E u \in Users, args \in ArgInputs :
       Answered(press_add_to_cart(u, Data("add_to_cart", args)))
  \/ \E u \in Users, args \in ArgInputs :
       Answered(press_cart_decrease(u, Data("cart_decrease", args)))
  \/ \E args \in ArgInputs : Answered(press_order_status(Data("order_status", args)))

SpecPress == InitPress /\ [][NextPress]_vars

\* the ids a caller can name for a user or a category: the stored ones and
\* one that is not stored
UserIds == {1, 2, 3}
CategoryInputs == CategoryIds \cup {3}

\* what a caller passes as status to create_order
CreateStatusInputs == {"unset", "processing"}

\* SpecCrud: the managers called directly, as the tests and the
\* administrator's buttons call them.  User 1 has a cart with product 2 in
\* it, user 2 has none and has ordered product 1.
InitCrud ==
  /\ products = InitProducts
  /\ carts = {[id |-> 1, tg_id |-> 1]}
  /\ cart_items = {[id |-> 1, cart_id |-> 1, product_id |-> 2, quantity |-> 1]}
  /\ orders = {order_row(1, "A1", 2, ReadyData, 1)}
  /\ order_items = {[order_id |-> 1, product_id |-> 1, quantity |-> 1, price |-> 1]}
  /\ fsm_state = [u \in Users |-> "none"]
  /\ fsm_data = [u \in Users |-> EmptyData]
  /\ conf = [h \in Handlers |-> IdleTask]
  /\ events = 0
  /\ NoCalls
  /\ Registered

NextCrud ==
  \/ \E n \in OrderNumbers, u \in {1, 2}, st \in CreateStatusInputs :
       OrderManager_create_order(n, u, st)
  \/ \E o \in OrderIds, st \in OrderStatus : OrderManager_update_order(o, st)
  \/ \E o \in OrderIds : OrderManager_delete_order(o)
  \/ \E st \in OrderStatus : OrderManager_count_orders_by_status(st)
  \/ \E st \in OrderStatus : OrderManager_list_orders(st)
  \/ \E u \in UserIds : UserManager_delete_user(u)
  \/ \E c \in CategoryInputs : CategoryManager_delete_category(c)

SpecCrud == InitCrud /\ [][NextCrud]_vars

\* the Telegram accounts that press cart buttons
Shoppers == {1, 2}

\* SpecTwo: two users, each with a cart (the carts of InitCart), press the
\* buttons of the cart menu with any item id, their own or not
NextTwo ==
  \/ \E u \in Shoppers, i \in ItemIds : Answered(cart_increase_event(u, i))
  \/ \E u \in Shoppers, i \in ItemIds : Answered(cart_decrease_event(u, i))
  \/ \E u \in Shoppers, i \in ItemIds : Answered(cart_remove_event(u, i))

SpecTwo == InitCart /\ [][NextTwo]_vars

(* ------------------------------ claims -------------------------------- *)
\* the Order row a confirm_order task committed is in the table
OrderStored(t) == \E o \in orders : o.id = t.order_id

\* Order.items: the order items of an order
OrderItemsOf(order_id) == {oi \in order_items : oi.order_id = order_id}

RECURSIVE LinesTotal(_)
\* sum of price * quantity over a set of order items
LinesTotal(S) ==
  IF S = {} THEN 0
  ELSE LET oi == CHOOSE x \in S : TRUE
       IN oi.price * oi.quantity + LinesTotal(S \ {oi})

\* every line of the task's cart has its order item in the table
LinesStored(t) ==
  \A i \in LineIdx(t.cart.items) :
    order_item_row(t.order_id, t.cart.items[i]) \in order_items

\* C1: order materialization is all-or-nothing: once a confirm_order task has
\* stopped, whether it returned or a persistence step failed under it,
\* either its Order, the Order's items and the emptied cart are all
\* persisted, or none of the three is.
C1_AllOrNothing ==
  \A h \in Handlers :
    conf[h].pc \in Finished =>
      \/ ~OrderStored(conf[h]) /\ OrderItemsOf(conf[h].order_id) = {} /\ ~conf[h].cleared
      \/ OrderStored(conf[h]) /\ OrderItemsOf(conf[h].order_id) # {} /\ conf[h].cleared

\* C2: two confirm events handled concurrently for the same session and the
\* same non-empty cart create exactly one Order: never more than one Order
\* row exists, and when both handlers have stopped there is one.
C2_ExactlyOneOrder ==
  /\ Cardinality(orders) <= 1
  /\ (\A h \in Handlers : conf[h].pc \in {"done", "aborted"}) => Cardinality(orders) = 1

\* C3: in every state in which no confirm_order handler is still running,
\* each Order has at least one OrderItem.
C3_NoOrderWithoutItems ==
  (\A h \in Handlers : conf[h].pc \in Finished) =>
    \A o \in orders : OrderItemsOf(o.id) # {}

\* C4: a confirm attempt that failed at a persistence step has left the
\* cart's items as they were (it removed none) and no Order or OrderItem it
\* wrote remains.
C4_FailureRollsBack ==
  \A h \in Handlers :
    conf[h].pc = "failed" =>
      /\ conf[h].removed = {}
      /\ ~conf[h].cleared
      /\ ~OrderStored(conf[h])
      /\ OrderItemsOf(conf[h].order_id) = {}

\* C5: when confirm_order has stored its Order and emptied the cart, the
\* Order's items are exactly one per CartItem that survived sanitize_cart,
\* each with that CartItem's product id and quantity and the product's price
\* as read by the handler, and there is no other OrderItem in the Order.
C5_OneItemPerSurvivor ==
  \A h \in Handlers :
    conf[h].pc = "notify" =>
      /\ OrderStored(conf[h])
      /\ OrderItemsOf(conf[h].order_id) =
           {order_item_row(conf[h].order_id, conf[h].cart.items[i]) :
              i \in {j \in 1..Len(conf[h].cart.items) :
                       conf[h].cart.items[j].id \notin conf[h].removed}}

\* C6: when no confirm_order handler is running, the total_price of every
\* Order equals the sum of price * quantity over the Order's items, whatever
\* the administrator did to prices and active flags meanwhile.
C6_TotalIsSumOfItems ==
  (\A h \in Handlers : conf[h].pc \in Finished) =>
    \A o \in orders : o.total_price = LinesTotal(OrderItemsOf(o.id))

\* C7: the cart is emptied by confirm_order only after the Order and every
\* one of its OrderItems is stored: a task that has cleared the cart has its
\* Order in the table, and right after the clearing every line of the cart
\* it read has its OrderItem in the table.
C7_ClearAfterPersist ==
  \A h \in Handlers :
    conf[h].cleared =>
      /\ OrderStored(conf[h])
      /\ OrderItemsOf(conf[h].order_id) # {}
      /\ conf[h].pc = "notify" => LinesStored(conf[h])

\* a task has cleared the cart and its Order holds both lines of the cart
C7_Witness ==
  \E h \in Handlers :
    /\ conf[h].pc = "notify" /\ conf[h].cleared
    /\ Cardinality(OrderItemsOf(conf[h].order_id)) = 2
    /\ cart_items = {}

\* C8: the clear_cart of a confirm leaves the cart without items, and every
\* CartItem row it removes is represented, product and quantity, by an
\* OrderItem of the new Order, also a row that add_to_cart or cart_increase
\* wrote while the confirm was being handled.
C8_ClearedItemsAreOrdered ==
  [][\A h \in Handlers :
       (conf[h].pc = "clear" /\ conf'[h].pc = "notify") =>
         /\ ItemsOfCart(conf[h].cart.id)' = {}
         /\ \A ci \in cart_items \ cart_items' :
              \E oi \in OrderItemsOf(conf[h].order_id) :
                oi.product_id = ci.product_id /\ oi.quantity = ci.quantity]_vars

\* C9: unit prices are frozen at order time: a step that changes the price
\* of a product leaves every OrderItem and every Order as it was.
C9_PricesFrozen ==
  [][(\E p \in ProductIds : products'[p].price # products[p].price)
       => order_items' = order_items /\ orders' = orders]_vars

\* an order item exists and the catalogue price of its product differs
\* from the price stored in it
C9_Witness ==
  \E oi \in order_items :
    products[oi.product_id].exists /\ products[oi.product_id].price # oi.price

\* C10: a cancel event in any checkout state resets the session to no state
\* with the collected fields discarded, creates no Order and leaves every
\* cart and CartItem row unchanged.
C10_CancelLeavesCart ==
  [][\A u \in Users :
       (cancel_order(u) \/ cancel(u)) =>
         /\ fsm_state'[u] = "none"
         /\ fsm_data'[u] = EmptyData
         /\ orders' = orders /\ order_items' = order_items
         /\ carts' = carts /\ cart_items' = cart_items]_vars

\* a session that was cancelled in the middle of the dialogue: it is idle,
\* its data is empty and its cart holds the rows it held in the dialogue
C10_Witness ==
  \E u \in Users :
    /\ fsm_state[u] = "none"
    /\ fsm_data[u] = EmptyData
    /\ cart_items = InitCartItems
    /\ products = InitProducts
    /\ orders = {}


\* the rows of the user's cart
ItemsOfUser(u) ==
  {ci \in cart_items : \E c \in carts : c.id = ci.cart_id /\ c.tg_id = u}

\* C11: start_checkout moves the session to the name stage only if the
\* user's cart holds an item after sanitation; when sanitation removed every
\* item the state is left as it was and no checkout data is stored.
C11_StartNeedsItems ==
  [][\A u \in Users :
       start_checkout(u) =>
         IF ItemsOfUser(u)' = {}
         THEN fsm_state'[u] = fsm_state[u] /\ fsm_data'[u] = fsm_data[u]
         ELSE fsm_state'[u] = NewDelivery.name]_vars


\* the phone stage, under either group's name
PhoneStage == {NewDelivery.phone_number, RegNewUser.phone_number}

\* C12: in the state that start_checkout enters, a text message that is
\* non-empty after trimming is taken by process_order_name, which stores the
\* trimmed name and moves the session to the phone stage; a message that is
\* empty after trimming changes neither the state nor the data.
C12_NameAdvances ==
  \A u \in Users :
    fsm_state[u] = NewDelivery.name =>
      \A text \in NameInputs :
        IF Strip(text) # <<>>
        THEN ENABLED (/\ process_order_name(u, text)
                      /\ fsm_state'[u] \in PhoneStage
                      /\ fsm_data'[u].name = Strip(text))
        ELSE ~ENABLED (/\ process_order_name(u, text)
                       /\ fsm_state'[u] # fsm_state[u] \/ fsm_data'[u] # fsm_data[u])


\* the number of digit characters of a text
CountDigits(text) == Cardinality({i \in DOMAIN text : text[i] \in Digits})

\* C13: in the state process_order_phone serves, an input is accepted (the
\* handler stores it and moves the session to the address stage) exactly
\* when it holds between 10 and 15 digit characters; any other input
\* changes neither the state nor the data.
C13_PhoneDigits ==
  \A u \in Users :
    fsm_state[u] = RegNewUser.phone_number =>
      \A text \in PhoneInputs :
        IF CountDigits(text) >= 10 /\ CountDigits(text) <= 15
        THEN ENABLED (/\ process_order_phone(u, text)
                      /\ fsm_state'[u] = RegNewUser.address
                      /\ fsm_data'[u] = [fsm_data[u] EXCEPT !.phone_number = Strip(text)])
        ELSE ~ENABLED (/\ process_order_phone(u, text)
                       /\ fsm_state'[u] # fsm_state[u] \/ fsm_data'[u] # fsm_data[u])

\* the handler has accepted the ten-digit number, stored without the
\* blank, and the session is at the address stage
C13_Witness ==
  \E u \in Users :
    /\ fsm_state[u] = RegNewUser.address
    /\ fsm_data[u].phone_number = <<"+">> \o [i \in 1..10 |-> "7"]


\* the delivery and confirmation stages, under either group's name
DeliveryStage == {NewDelivery.delivery_method, RegNewUser.delivery_method}
ConfirmStage == {NewDelivery.confirm, RegNewUser.confirm}

\* the two labels of the delivery buttons
DeliveryLabels == {Courier, SelfPickup}

\* C14: the session leaves the delivery stage for the confirmation stage
\* only with one of the two enumerated delivery choices stored, and the
\* delivery method of every Order is one of the two labels.
C14_DeliveryEnumerated ==
  [][/\ \A u \in Users :
          (fsm_state[u] \in DeliveryStage /\ fsm_state'[u] \in ConfirmStage)
            => fsm_data'[u].delivery_method \in DeliveryLabels
     /\ \A o \in orders' : o.delivery_method \in DeliveryLabels]_vars


\* C15: when a delivery choice arrives and the cart, fetched and sanitized
\* at that moment, has no item left, the session ends cleared; when the
\* cart holds an item the session ends at the confirmation prompt.
C15_DeliveryChecksCart ==
  [][\A u \in Users, select_courier \in BOOLEAN :
       choose_delivery_method(u, select_courier) =>
         IF ItemsOfCart(fsm_data[u].cart_id)' = {}
         THEN fsm_state'[u] = "none" /\ fsm_data'[u] = EmptyData
         ELSE fsm_state'[u] = NewDelivery.confirm]_vars


\* C16: a confirm whose cart, as fetched and sanitized by the handler, has
\* no item left (every fetched item is removed by sanitize_cart) resets the
\* session and returns without inserting an Order or OrderItem.
C16_EmptyCartAborts ==
  [][\A h \in Handlers :
       (/\ confirm_order_sanitize(h)
        /\ \A i \in 1..Len(conf[h].cart.items) : Unavailable(conf[h].cart.items[i]))
         => /\ conf'[h].pc = "aborted"
            /\ fsm_state'[conf[h].tg_id] = "none"
            /\ fsm_data'[conf[h].tg_id] = EmptyData
            /\ orders' = orders /\ order_items' = order_items]_vars

\* the four fields of the dialogue are all in the data
AllCollected(data) ==
  /\ data.name # None
  /\ data.phone_number # None
  /\ data.address # None
  /\ data.delivery_method # None

\* C17: an Order or OrderItem is written only by a confirm_order task, and a
\* task is started only by a confirm received while the session is in
\* NewDelivery.confirm with name, phone number, address and delivery method
\* collected; a session whose state was cleared starts none.
C17_OrderOnlyOnConfirm ==
  [][/\ \A h \in Handlers :
          (conf[h].pc \in Finished /\ conf'[h].pc \in Running) =>
            /\ fsm_state[conf'[h].tg_id] = NewDelivery.confirm
            /\ AllCollected(fsm_data[conf'[h].tg_id])
            /\ conf'[h].data = fsm_data[conf'[h].tg_id]
     /\ (orders' # orders \/ order_items' # order_items) =>
          \E h \in Handlers : conf[h].pc \in Running /\ AllCollected(conf[h].data)]_vars

C17_Witness ==
  \E o \in orders :
    /\ conf["h1"].pc = "done"
    /\ o.tg_id = 1
    /\ o.delivery_method = SelfPickup
    /\ fsm_state[1] = "none"
    /\ OrderItemsOf(o.id) # {}

\* the steps of the dialogue before the delivery choice
EarlyStep ==
  \/ \E u \in Users : start_checkout(u)
  \/ \E u \in Users, text \in NameInputs : process_order_name(u, text)
  \/ \E u \in Users, text \in PhoneInputs : process_order_phone(u, text)
  \/ \E u \in Users, text \in AddressInputs : process_order_address(u, text)

\* C18: start_checkout and the name, phone number and address steps leave
\* products, carts, orders and order items as they are, and the only
\* cart_items rows they touch are rows of a missing or inactive product,
\* which they delete.
C18_EarlyStepsOnlySanitize ==
  [][EarlyStep =>
       /\ products' = products
       /\ carts' = carts
       /\ orders' = orders
       /\ order_items' = order_items
       /\ cart_items' \subseteq cart_items
       /\ \A ci \in cart_items \ cart_items' : Unavailable(LoadItem(ci))]_vars

C18_Witness ==
  /\ fsm_state[1] = NewDelivery.name
  /\ fsm_data[1] = [EmptyData EXCEPT !.cart_id = 1]
  /\ \E ci \in cart_items : ~Unavailable(LoadItem(ci))
  /\ \E p \in ProductIds :
       /\ Unavailable([product |-> LoadProduct(p)])
       /\ \A ci \in cart_items : ci.product_id # p

\* the cart of user u holds one row, of an active product, with quantity 1
OneActiveLine(u) ==
  /\ Cardinality(ItemsOfUser(u)) = 1
  /\ \A ci \in ItemsOfUser(u) : ci.quantity = 1 /\ ~Unavailable(LoadItem(ci))

\* the outcome of the scenario: one order, with one order item at the
\* product's price and quantity 1, the cart empty, the session idle
OneOrderPlaced(u) ==
  /\ fsm_state[u] = "none" /\ fsm_data[u] = EmptyData
  /\ ItemsOfUser(u) = {}
  /\ Cardinality(orders) = 1
  /\ \A o \in orders :
       /\ Cardinality(OrderItemsOf(o.id)) = 1
       /\ \A oi \in OrderItemsOf(o.id) :
            oi.quantity = 1 /\ o.total_price = oi.price

\* the steps of confirm_order, one after the other
CanConfirm(u) ==
  ENABLED (confirm_order_load("h1", u) /\
   (ENABLED (confirm_order_sanitize("h1") /\
    (ENABLED ((\E n \in OrderNumbers : confirm_order_create_order("h1", n)) /\
     (ENABLED (confirm_order_create_item("h1") /\
      (ENABLED (confirm_order_clear_cart("h1") /\
       (ENABLED (confirm_order_finish("h1") /\ OneOrderPlaced(u)'))'))'))'))'))')

\* the delivery choice and what follows it
CanChoose(u) ==
  ENABLED (choose_delivery_method(u, TRUE)
           /\ fsm_state'[u] \in ConfirmStage /\ CanConfirm(u)')

\* the three text steps and what follows them
CanAnswer(u) ==
  ENABLED (process_order_name(u, Ann) /\ fsm_state'[u] \in PhoneStage /\
   (ENABLED (process_order_phone(u, Phone11)
             /\ fsm_state'[u] \in {NewDelivery.address, RegNewUser.address} /\
    (ENABLED (process_order_address(u, MainSt)
              /\ fsm_state'[u] \in DeliveryStage /\ CanChoose(u)'))'))')

\* C19: from an idle session with one active product, quantity 1, in the
\* cart and no order yet, start_checkout, a name, a phone number, an
\* address, the courier button and confirm can be taken one after the other,
\* passing the name, phone, address, delivery and confirmation stages, and
\* end with one order of one order item, an empty cart and an idle session.
C19_EndToEnd ==
  \A u \in Users :
    (fsm_state[u] = "none" /\ OneActiveLine(u) /\ orders = {} /\ conf["h1"].pc = "idle") =>
      ENABLED (start_checkout(u)
               /\ fsm_state'[u] \in {NewDelivery.name, RegNewUser.name}
               /\ CanAnswer(u)')

\* C20: when confirm_order ends with success the session is idle and its
\* data empty; while the session is idle no confirm starts a confirm_order
\* task, so no further Order comes without a new start_checkout; and a
\* start_checkout that opens the dialogue leaves nothing in the data but the
\* cart id.
C20_ConfirmResetsSession ==
  [][/\ \A h \in Handlers :
          (conf[h].pc = "notify" /\ conf'[h].pc = "done") =>
            /\ fsm_state'[conf[h].tg_id] = "none"
            /\ fsm_data'[conf[h].tg_id] = EmptyData
     /\ \A u \in Users :
          fsm_state[u] = "none" =>
            \A h \in Handlers :
              ~(conf[h].pc \in Finished /\ conf'[h].pc \in Running
                /\ conf'[h].tg_id = u)
     /\ \A u \in Users :
          (start_checkout(u) /\ fsm_state'[u] = NewDelivery.name) =>
            fsm_data'[u] = [EmptyData EXCEPT !.cart_id = fsm_data'[u].cart_id]]_vars

\* an order was placed, and a later start_checkout has opened a new dialogue
C20_Witness ==
  /\ conf["h1"].pc = "done"
  /\ \E o \in orders : o.id = conf["h1"].order_id /\ OrderItemsOf(o.id) # {}
  /\ fsm_state[1] = NewDelivery.name
  /\ fsm_data[1] = [EmptyData EXCEPT !.cart_id = 1]

\* the rows of the user's cart with the product
LinesOf(u, p) == {ci \in ItemsOfUser(u) : ci.product_id = p}

\* C21: a cart never holds two rows of one product, and add_product_to_cart
\* for a product the cart does not hold leaves one row of quantity 1, for a
\* product it holds with quantity q one row of quantity q + 1; so two adds
\* of a product the cart did not hold leave one row of quantity 2.
C21_OneLinePerProduct ==
  /\ [](\A a \in cart_items, b \in cart_items :
          (a.cart_id = b.cart_id /\ a.product_id = b.product_id) => a = b)
  /\ [][\A u \in Users, p \in ProductIds :
          add_product_to_cart(u, p) =>
            /\ Cardinality(LinesOf(u, p)') = 1
            /\ \A new \in LinesOf(u, p)' :
                 IF LinesOf(u, p) = {} THEN new.quantity = 1
                 ELSE \A old \in LinesOf(u, p) : new.quantity = old.quantity + 1
            /\ \A q \in ProductIds \ {p} : LinesOf(u, q)' = LinesOf(u, q)]_vars

\* the first product was added twice to the empty cart, nothing else was done
C21_Witness ==
  /\ cart_items = {[id |-> 1, cart_id |-> 1, product_id |-> 1, quantity |-> 2]}
  /\ products = InitProducts
  /\ fsm_state[1] = "none"

\* the row with the given id after the step, as a set
RowAfter(item_id) == {ci \in cart_items : ci.id = item_id}'

\* C22 as stated: every stored quantity is positive, a decrease of a
\* quantity of 1 deletes the row, and a decrease of a larger quantity leaves
\* the row with the quantity lowered by exactly 1.
C22_DecreaseLowersByOne ==
  /\ [](\A ci \in cart_items : ci.quantity > 0)
  /\ [][\A u \in Users, i \in ItemIds :
          decrease_cart_item(u, i) =>
            \A e \in OwnedItem(u, i) :
              IF e.quantity - 1 <= 0 THEN RowAfter(i) = {}
              ELSE RowAfter(i) = {[e EXCEPT !.quantity = e.quantity - 1]}]_vars

\* C22 amended: every stored quantity is positive, a decrease of a quantity
\* of 1 deletes the row, and a decrease of a larger quantity lowers it by
\* exactly 1 when the row's product exists and is active; the row of a
\* missing or inactive product is deleted by the redrawing of the cart.
C22_PositiveQuantity ==
  /\ [](\A ci \in cart_items : ci.quantity > 0)
  /\ [][\A u \in Users, i \in ItemIds :
          decrease_cart_item(u, i) =>
            \A e \in OwnedItem(u, i) :
              IF e.quantity - 1 <= 0 \/ Unavailable(LoadItem(e))
              THEN RowAfter(i) = {}
              ELSE RowAfter(i) = {[e EXCEPT !.quantity = e.quantity - 1]}]_vars

\* the cart that a decrease leaves when product 2 was added first and twice:
\* its only row has quantity 1
C22_Witness ==
  /\ cart_items = {[id |-> 1, cart_id |-> 1, product_id |-> 2, quantity |-> 1]}
  /\ products = InitProducts
  /\ fsm_state[1] = "none"

\* the row with the given id before the step, as a set
RowBefore(item_id) == {ci \in cart_items : ci.id = item_id}

\* C23: update_cart_item_count on an existing row deletes the row when the
\* quantity is 0 or less and stores exactly the quantity when it is above
\* 0; no stored quantity is 0 or less.
C23_SetQuantity ==
  /\ [](\A ci \in cart_items : ci.quantity > 0)
  /\ [][\A i \in ItemIds, q \in QuantityInputs :
          (CartManager_update_cart_item_count(i, q) /\ RowBefore(i) # {}) =>
            IF q <= 0 THEN RowAfter(i) = {}
            ELSE RowAfter(i) = {[e EXCEPT !.quantity = q] : e \in RowBefore(i)}]_vars

\* C26: delete_cart_item returns True when the row is there and False when
\* it is not, and after it a second call for the same id returns False and
\* changes nothing; clear_cart returns without error, and after it a second
\* call for the same cart returns without error and changes nothing.
C26_DeleteIdempotent ==
  [][/\ \A i \in ItemIds :
          (ret'.op = "delete_cart_item" /\ CartManager_delete_cart_item(i)) =>
            /\ ret'.value = IF RowBefore(i) # {} THEN "True" ELSE "False"
            /\ cart_items' = cart_items \ RowBefore(i)
            /\ (ENABLED (CartManager_delete_cart_item(i) /\ ret'.value = "False"
                         /\ cart_items' = cart_items))'
            /\ ~(ENABLED (CartManager_delete_cart_item(i) /\
                          (ret'.value # "False" \/ cart_items' # cart_items)))'
     /\ \A c \in CartIds :
          (ret'.op = "clear_cart" /\ CartManager_clear_cart(c)) =>
            /\ ret'.value = "None"
            /\ (ENABLED (CartManager_clear_cart(c) /\ ret'.value = "None"
                         /\ cart_items' = cart_items))'
            /\ ~(ENABLED (CartManager_clear_cart(c) /\
                          (ret'.value # "None" \/ cart_items' # cart_items)))']_vars

\* a row was deleted and the call was repeated, or made for an id never there
C26_Witness ==
  /\ ret.op = "delete_cart_item" /\ ret.value = "False"
  /\ \E ci \in InitCartItems : ~\E x \in cart_items : x.id = ci.id

\* C27: clear_cart deletes every row of the cart it is given and leaves the
\* rows of every other cart and the carts table as they are.
C27_ClearOneCart ==
  [][\A c \in CartIds :
       CartManager_clear_cart(c) =>
         /\ ItemsOfCart(c)' = {}
         /\ \A d \in CartIds \ {c} : ItemsOfCart(d)' = ItemsOfCart(d)
         /\ cart_items' \subseteq cart_items
         /\ carts' = carts]_vars

\* cart 1 was cleared and the row of cart 2 is still there
C27_Witness ==
  /\ ret.op = "clear_cart"
  /\ ItemsOfCart(1) = {}
  /\ [id |-> 3, cart_id |-> 2, product_id |-> 1, quantity |-> 1] \in cart_items

\* the rows of the cart whose product row is gone or not active
BadRows(cart_id) ==
  {ci \in ItemsOfCart(cart_id) :
     ~products[ci.product_id].exists \/ ~products[ci.product_id].is_active}

\* C28: sanitize_cart deletes exactly the rows of the given cart whose
\* product is missing or inactive and leaves every other row as it is; when
\* the cart has no such row nothing is deleted and the cart it was given is
\* returned.
C28_SanitizeExact ==
  [][\A c \in CartIds :
       (ret'.op = "sanitize_cart" /\ sanitize_cart(c)) =>
         /\ cart_items' = cart_items \ BadRows(c)
         /\ BadRows(c) = {} => ret'.cart = get_cart(c)]_vars

\* cart 1 was sanitized, the row of an inactive or missing product is gone
\* and another row of the cart is left
C28_Witness ==
  /\ ret.op = "sanitize_cart" /\ ret.cart.id = 1
  /\ ItemsOfCart(1) # {} /\ BadRows(1) = {}
  /\ \E ci \in InitCartItems :
       /\ ~\E x \in cart_items : x.id = ci.id
       /\ ~LoadProduct(ci.product_id).is_active

\* C24: add_product_to_cart for a product that is missing or inactive ends
\* at once and stores nothing: no cart is created, no row inserted and no
\* quantity changed, then or later by that task.
C24_UnavailableAddIsNoOp ==
  [][/\ \A t \in AddTasks, u \in Users, p \in ProductIds :
          (add_load(t, u, p) /\ (~products[p].exists \/ ~products[p].is_active)) =>
            /\ add_task'[t].pc = "rejected"
            /\ carts' = carts /\ cart_items' = cart_items
     /\ (carts' # carts \/ cart_items' # cart_items) =>
          \E t \in AddTasks :
            /\ add_task[t].pc \notin AddEnded
            /\ add_task'[t] # add_task[t]
            /\ products[add_task[t].product_id].exists
            /\ products[add_task[t].product_id].is_active]_vars

\* the add of the second product was turned down with nothing in the shop
C24_Witness ==
  /\ \E t \in AddTasks : add_task[t].pc = "rejected" /\ add_task[t].product_id = 2
  /\ carts = {} /\ cart_items = {}

\* C25: no user has two carts, and no add_product_to_cart task fails
\* because the user's cart exists already.
C25_LazyCartIdempotent ==
  /\ \A a \in carts, b \in carts : a.tg_id = b.tg_id => a = b
  /\ \A t \in AddTasks : add_task[t].error # "carts.tg_id"

\* the collected fields the Order row is to carry besides the order number,
\* the user's id, the total and the delivery method
DeliveryColumns == {"name", "phone", "address"}

\* C29: every Order row created by confirm_order carries the name, phone
\* and address collected in the session, together with the order number,
\* the user's id, the total and the delivery method.
C29_OrderCarriesDelivery ==
  \A o \in orders :
    /\ {"order_number", "tg_id", "total_price", "delivery_method"} \subseteq DOMAIN o
    /\ DeliveryColumns \subseteq DOMAIN o

\* C30: an order in any status can be put into each of the five statuses by
\* one change_order_status, and change_order_status changes nothing but the
\* status of that order: total, order number, owner and order items stay.
C30_StatusUnconstrained ==
  /\ [](\A o \in orders, st \in OrderStatus :
          ENABLED (change_order_status(o.id, st) /\
                   \E n \in orders' : n.id = o.id /\ n.status = st))
  /\ [][\A id \in OrderIds, st \in StatusInputs :
          change_order_status(id, st) =>
            /\ order_items' = order_items
            /\ Cardinality(orders') = Cardinality(orders)
            /\ \A o \in orders :
                 \E n \in orders' :
                   /\ n = [o EXCEPT !.status = n.status]
                   /\ o.id # id => n = o]_vars

\* a complete order that was moved on from new
C30_Witness ==
  \E o \in orders :
    /\ o.status = "canceled"
    /\ OrderItemsOf(o.id) # {}
    /\ o.total_price > 0
    /\ conf["h1"].pc = "done"

\* C31: a status change with a token outside the five statuses, or with an
\* order id that has no row, changes no order and no order item, and the
\* handler ends by reporting the failure to the administrator.
C31_BadStatusChangeReported ==
  [][\A id \in OrderIds, st \in StatusInputs :
       (change_order_status(id, st) /\
        (st \notin OrderStatus \/ ~\E o \in orders : o.id = id)) =>
         /\ orders' = orders
         /\ order_items' = order_items
         /\ ret'.value = (IF st \notin OrderStatus THEN "unknown status"
                                                  ELSE "order not found")]_vars

\* the administrator named an order that does not exist while another does
C31_Witness ==
  /\ ret.op = "change_order_status"
  /\ ret.value = "order not found"
  /\ orders # {}

\* the callback data is well formed for a handler that takes n fields: as
\* many fields as the handler reads, the id a number
WellFormed(data, n) ==
  /\ Len(split(data)) = n
  /\ IsIntLiteral(split(data)[2])

\* C32: a button press whose arguments are malformed (an id that is no
\* number, a field missing or too many) ends normally, with no unhandled
\* error, and changes neither the database nor the FSM storage.
C32_MalformedPressHandled ==
  [][\A u \in Users, args \in ArgInputs :
       /\ (press_add_to_cart(u, Data("add_to_cart", args)) /\
           ~WellFormed(Data("add_to_cart", args), 2)) =>
            ret'.value # "ValueError" /\ UNCHANGED <<db, fsm_state, fsm_data>>
       /\ (press_cart_decrease(u, Data("cart_decrease", args)) /\
           ~WellFormed(Data("cart_decrease", args), 2)) =>
            ret'.value # "ValueError" /\ UNCHANGED <<db, fsm_state, fsm_data>>
       /\ (press_order_status(Data("order_status", args)) /\
           ~WellFormed(Data("order_status", args), 3)) =>
            ret'.value # "ValueError" /\ UNCHANGED <<db, fsm_state, fsm_data>>]_vars

\* C33: a product delete is refused while an order item refers to the
\* product, so the product of every order item exists in every reachable
\* state; a product delete that succeeds removes every cart item of the
\* product, so no cart item refers to the deleted product after it.
C33_ProductDeleteCascades ==
  /\ [](\A oi \in order_items : products[oi.product_id].exists)
  /\ [][\A p \in ProductIds :
          delete_product(p) => \A ci \in cart_items' : ci.product_id # p]_vars

\* C34: a delete_category call on a category that still owns products
\* removes neither the category nor any of its products.
C34_CategoryDeleteRestricted ==
  [][\A c \in CategoryInputs :
       (ret'.op = "delete_category" /\ CategoryManager_delete_category(c) /\
        c \in categories /\ ProductsOf(c) # {}) =>
         categories' = categories /\ products' = products]_vars

\* C35: after a delete_user call that deleted the user, every order the
\* user owned is still stored, with its user reference null (0) and
\* everything else as it was, and its order items are still stored.
C35_UserDeleteKeepsOrders ==
  [][\A uid \in UserIds :
       (ret'.op = "delete_user" /\ UserManager_delete_user(uid) /\
        ret'.value = "True") =>
         \A o \in orders :
           (\E u \in users : u.id = uid /\ u.tg_id = o.tg_id) =>
             /\ [o EXCEPT !.tg_id = 0] \in orders'
             /\ OrderItemsOf(o.id) \subseteq order_items']_vars

\* C36: whatever create_order, update_order and delete_order calls came
\* before, count_orders_by_status(S) returns the number of stored orders
\* with status S and list_orders(status=S) returns exactly these orders; an
\* order created without a status is stored with status new.
C36_StatusCounts ==
  [][/\ \A st \in OrderStatus :
          /\ (ret'.op = "count_orders_by_status" /\
              OrderManager_count_orders_by_status(st)) =>
               ret'.value = Cardinality({o \in orders : o.status = st})
          /\ (ret'.op = "list_orders" /\ OrderManager_list_orders(st)) =>
               ret'.value = {o \in orders : o.status = st}
     /\ \A n \in OrderNumbers, u \in {1, 2} :
          (ret'.op = "create_order" /\ OrderManager_create_order(n, u, "unset") /\
           ret'.value = "order") =>
            /\ Cardinality(orders' \ orders) = 1
            /\ \A o \in orders' \ orders : o.status = "new"]_vars

\* one of two stored orders was counted after an update moved the other on
C36_Witness ==
  /\ ret.op = "count_orders_by_status"
  /\ ret.value = 1
  /\ Cardinality(orders) = 2
  /\ \E o \in orders : o.status = "shipped"
  /\ \E o \in orders : o.status = "new" /\ o.id = 2

\* C37: no two stored orders share an order number, and a confirm_order
\* whose generated number is already stored stores no second order.
C37_UniqueOrderNumbers ==
  /\ [](\A a \in orders, b \in orders : a.order_number = b.order_number => a = b)
  /\ [][\A h \in Handlers, n \in OrderNumbers :
          (confirm_order_create_order(h, n) /\
           \E o \in orders : o.order_number = n) =>
            /\ orders' = orders
            /\ conf'[h].pc = "failed"]_vars

\* two presses of the confirm button stored two orders
C37_Witness ==
  /\ Cardinality(orders) = 2
  /\ \E h \in Handlers : conf[h].pc \in {"items", "clear", "notify", "done"}

\* C38: two add-to-cart presses for the same product and cart, their reads
\* and writes interleaved in any way, both take effect: every write of a
\* press raises the stored quantity of the line by one, the cart keeps one
\* line for the product, and no press fails on the uniqueness of cart and
\* product.
C38_ConcurrentAddsBothCount ==
  /\ [](\A t \in AddTasks : add_task[t].error # "uq_cartitem_cart_product")
  /\ [](\A a \in cart_items, b \in cart_items :
          (a.cart_id = b.cart_id /\ a.product_id = b.product_id) => a = b)
  /\ [][\A t \in AddTasks :
          add_update_cart_item_count(t) =>
            \A ci \in cart_items :
              ci.id = add_task[t].existing_id =>
                [ci EXCEPT !.quantity = ci.quantity + 1] \in cart_items']_vars

\* the item is stored in the cart of another user than u
ForeignItem(u, item_id) ==
  \E ci \in cart_items :
    ci.id = item_id /\ \E c \in carts : c.id = ci.cart_id /\ c.tg_id # u

\* C39: a cart_increase, cart_decrease or cart_remove press of a user on an
\* item of another user's cart changes no cart row: the item keeps its
\* quantity and stays stored, every other row too, and the user is told the
\* item is not in the cart.
C39_ForeignItemUntouched ==
  [][\A u \in Shoppers, i \in ItemIds :
       (ForeignItem(u, i) /\
        ret'.op \in {"cart_increase", "cart_decrease", "cart_remove"} /\
        (cart_increase_event(u, i) \/ cart_decrease_event(u, i) \/
         cart_remove_event(u, i))) =>
          /\ cart_items' = cart_items
          /\ carts' = carts
          /\ ret'.value = "not found"]_vars

\* user 1 pressed remove on item 3 of user 2's cart, which is still stored
C39_Witness ==
  /\ ret.op = "cart_remove"
  /\ ret.value = "not found"
  /\ \E ci \in cart_items : ci.id = 3 /\ ci.cart_id = 2 /\ ci.quantity = 1
  /\ \A ci \in cart_items : ci.cart_id = 2

\* C40: the order is made of the cart as confirm_order sanitized it: no
\* order item is stored for a cart line that the sanitize pass of the same
\* confirm_order removed because its product was missing or inactive.
C40_OrderOfSanitizedCart ==
  [][\A h \in Handlers :
       confirm_order_create_item(h) =>
         \A oi \in order_items' \ order_items :
           \A i \in 1..Len(conf[h].cart.items) :
             conf[h].cart.items[i].product.id = oi.product_id =>
               conf[h].cart.items[i].id \notin conf[h].removed]_vars

====
